---- MODULE Spec2Model ----
(***************************************************************************)
(* A model of benchviz: the configuration rule store (package config), the *)
(* classifier (Object.MatchString and the Find* lookups) and the organizer *)
(* (Scenarize = parseBenchmarks + populateCategories).                     *)
(*                                                                         *)
(* Strings that the program only compares are TLA+ strings.  A benchmark   *)
(* or file name is the set of the tokens it contains, and a regular        *)
(* expression is a literal token: regexp.MatchString(name) is "the token   *)
(* occurs in the name".  The pattern "(" does not compile.                 *)
(***************************************************************************)
EXTENDS Integers, Sequences, FiniteSets, TLC

\* ------------------------------------------------------------------------
\* Bounds of the model
\* ------------------------------------------------------------------------
MaxRules == 2
MaxFiles == 2
MaxNested == 1
MaxRecords == 2
MaxEntries == 2
MaxParsed == 3

\* ------------------------------------------------------------------------
\* Generic helpers
\* ------------------------------------------------------------------------
Range(s) == {s[i] : i \in 1..Len(s)}

SeqsUpTo(S, n) == UNION {[1..k -> S] : k \in 0..n}

\* the first n elements of s, all of s when it is shorter
Prefix(s, n) == [i \in 1..(IF Len(s) < n THEN Len(s) ELSE n) |-> s[i]]

\* ------------------------------------------------------------------------
\* Names and regular expressions
\* ------------------------------------------------------------------------
Tokens == {"x", "y"}

Names == SUBSET Tokens

BadPattern == "("

NilRegexp == [set |-> FALSE, re |-> ""]

\* regexp.Compile: fails on the malformed pattern, else a matcher
regexpCompile(p) ==
    IF p = BadPattern
    THEN [err |-> "regexp", re |-> NilRegexp]
    ELSE [err |-> "", re |-> [set |-> TRUE, re |-> p]]

\* (*regexp.Regexp).MatchString
regexpMatchString(re, name) == re.re = "" \/ re.re \in name

\* ------------------------------------------------------------------------
\* Metric names (config/metrics.go)
\* ------------------------------------------------------------------------
MetricNsPerOp == "nsPerOp"
MetricAllocsPerOp == "allocsPerOp"
MetricBytesPerOp == "bytesPerOp"
MetricMBPerS == "MBytesPerS"

AllMetricNames == <<MetricNsPerOp, MetricAllocsPerOp, MetricBytesPerOp, MetricMBPerS>>

\* a validity test that accepts any metric name
IsValidAlways(m) == TRUE

IsValid(m) == m \in {MetricNsPerOp, MetricAllocsPerOp, MetricBytesPerOp, MetricMBPerS}

\* ------------------------------------------------------------------------
\* Titles.  A title is a tuple of characters, <<>> being the empty title.
\* ------------------------------------------------------------------------
Chars(id) ==
    CASE id = "f1" -> <<"f", "1">>
      [] id = "f2" -> <<"f", "2">>
      [] id = "f3" -> <<"f", "3">>
      [] id = "v1" -> <<"v", "1">>
      [] id = "v2" -> <<"v", "2">>
      [] id = "v3" -> <<"v", "3">>
      [] id = "c1" -> <<"c", "1">>
      [] id = "c2" -> <<"c", "2">>
      [] id = "c3" -> <<"c", "3">>
      [] id = "cat_1" -> <<"c", "a", "t", "_", "1">>
      [] id = "cat-2" -> <<"c", "a", "t", "-", "2">>
      [] id = "f_1" -> <<"f", "_", "1">>
      [] id = "c-1" -> <<"c", "-", "1">>
      [] id = "v_1" -> <<"v", "_", "1">>
      [] id = "cat1" -> <<"c", "a", "t", "1">>
      [] id = "cat2" -> <<"c", "a", "t", "2">>
      [] id = "cat3" -> <<"c", "a", "t", "3">>
      [] id = "" -> <<>>
      [] id = "a" -> <<"a">>
      [] id = "a-b" -> <<"a", "-", "b">>
      [] id = "\\(" -> <<"\\", "(">>
      [] id = "bogus" -> <<"b", "o", "g", "u", "s">>
      [] id = "Benchmark" -> <<"B", "e", "n", "c", "h", "m", "a", "r", "k">>
      [] id = "BenchmarkA" -> <<"B", "e", "n", "c", "h", "m", "a", "r", "k", "A">>
      [] id = "BenchmarkA-8" -> <<"B", "e", "n", "c", "h", "m", "a", "r", "k", "A", "-", "8">>
      [] id = "Benchmark_a" -> <<"B", "e", "n", "c", "h", "m", "a", "r", "k", "_", "a">>
      [] id = "BenchmarkA/b" -> <<"B", "e", "n", "c", "h", "m", "a", "r", "k", "A", "/", "b">>
      [] id = "BenchmarkA-b" -> <<"B", "e", "n", "c", "h", "m", "a", "r", "k", "A", "-", "b">>
      [] id = MetricNsPerOp -> <<"n", "s", "P", "e", "r", "O", "p">>
      [] id = MetricAllocsPerOp -> <<"a", "l", "l", "o", "c", "s", "P", "e", "r", "O", "p">>
      [] id = MetricBytesPerOp -> <<"b", "y", "t", "e", "s", "P", "e", "r", "O", "p">>
      [] id = MetricMBPerS -> <<"M", "B", "y", "t", "e", "s", "P", "e", "r", "S">>
      [] OTHER -> <<id>>

Upper(ch) ==
    CASE ch = "f" -> "F"
      [] ch = "v" -> "V"
      [] ch = "c" -> "C"
      [] ch = "a" -> "A"
      [] ch = "t" -> "T"
      [] ch = "n" -> "N"
      [] ch = "b" -> "B"
      [] OTHER -> ch

\* a title that is the id as it stands
titleizeVerbatim(id) == Chars(id)

\* titleize: '_' and '-' become spaces, then the first letter of every word
\* is upper-cased (cases.Title with NoLower leaves the other letters alone)
titleize(id) ==
    LET mapped == [i \in 1..Len(Chars(id)) |->
                      IF Chars(id)[i] \in {"_", "-"} THEN " " ELSE Chars(id)[i]]
    IN  [i \in 1..Len(mapped) |->
            IF i = 1 \/ mapped[i - 1] = " " THEN Upper(mapped[i]) ELSE mapped[i]]

\* ------------------------------------------------------------------------
\* Object (Function, Context, Version) and File
\* ------------------------------------------------------------------------
\* an Object as decoded from the document: no compiled matcher yet
Object(id, title, match, notMatch) ==
    [ID |-> id, Title |-> title, Match |-> match, NotMatch |-> notMatch,
     match |-> NilRegexp, notMatch |-> NilRegexp]

Matchers(o) == <<o.match, o.notMatch>>

NoMatch == [id |-> "", ok |-> FALSE]

\* a MatchString that needs the positive pattern to match
MatchStringPositiveOnly(o, name) ==
    IF Matchers(o)[1].set /\ regexpMatchString(Matchers(o)[1], name)
       /\ ~(Matchers(o)[2].set /\ regexpMatchString(Matchers(o)[2], name))
    THEN [id |-> o.ID, ok |-> TRUE]
    ELSE NoMatch

\* Object.MatchString
MatchString(o, name) ==
    LET matcher    == Matchers(o)[1]
        notMatcher == Matchers(o)[2]
        matchOk    == IF matcher.set THEN regexpMatchString(matcher, name) ELSE FALSE
        notMatchOk == IF notMatcher.set THEN regexpMatchString(notMatcher, name) ELSE FALSE
    IN  IF ~matcher.set /\ ~notMatcher.set THEN NoMatch
        ELSE IF matchOk /\ ~notMatchOk THEN [id |-> o.ID, ok |-> TRUE]
        ELSE IF ~matcher.set /\ ~notMatchOk THEN [id |-> o.ID, ok |-> TRUE]
        ELSE NoMatch

\* a File as decoded from the document
File(id, matchFile, contexts, versions) ==
    [ID |-> id, MatchFile |-> matchFile, Contexts |-> contexts, Versions |-> versions,
     match |-> NilRegexp]

\* File.MatchString
FileMatchString(f, file) ==
    IF ~f.match.set THEN NoMatch
    ELSE IF ~regexpMatchString(f.match, file) THEN NoMatch
    ELSE [id |-> f.ID, ok |-> TRUE]

\* a scan that returns the last definition, from position i on, whose
\* MatchString accepts the name
lastMatch(defs, i, name) ==
    IF \E k \in i..Len(defs) : MatchString(defs[k], name).ok
    THEN LET k == CHOOSE k \in i..Len(defs) :
                     /\ MatchString(defs[k], name).ok
                     /\ \A l \in (k + 1)..Len(defs) : ~MatchString(defs[l], name).ok
         IN  [id |-> MatchString(defs[k], name).id, ok |-> TRUE]
    ELSE NoMatch

\* the scan shared by FindFunction, FindVersion and FindContext: the first
\* definition, from position i on, whose MatchString accepts the name
RECURSIVE firstMatch(_, _, _)
firstMatch(defs, i, name) ==
    IF i > Len(defs) THEN NoMatch
    ELSE IF MatchString(defs[i], name).ok THEN [id |-> MatchString(defs[i], name).id, ok |-> TRUE]
    ELSE firstMatch(defs, i + 1, name)

FindFunction(c, name) == firstMatch(c.Functions, 1, name)

FindVersion(c, name) == firstMatch(c.Versions, 1, name)

FindContext(c, name) == firstMatch(c.Contexts, 1, name)

\* a FindVersionFromFile that stops at the first file rule matching the file
findVersionFromFirstFile(files, i, file) ==
    IF \E k \in i..Len(files) : FileMatchString(files[k], file).ok
    THEN LET k == CHOOSE k \in i..Len(files) :
                     /\ FileMatchString(files[k], file).ok
                     /\ \A l \in i..(k - 1) : ~FileMatchString(files[l], file).ok
         IN  firstMatch(files[k].Versions, 1, file)
    ELSE NoMatch

\* FindVersionFromFile: file rules that do not match the file are skipped;
\* a file rule that matches but has no matching version is passed over too
RECURSIVE findVersionFromFile(_, _, _)
findVersionFromFile(files, i, file) ==
    IF i > Len(files) THEN NoMatch
    ELSE IF ~FileMatchString(files[i], file).ok THEN findVersionFromFile(files, i + 1, file)
    ELSE IF firstMatch(files[i].Versions, 1, file).ok THEN firstMatch(files[i].Versions, 1, file)
    ELSE findVersionFromFile(files, i + 1, file)

FindVersionFromFile(c, file) == findVersionFromFile(c.Files, 1, file)

RECURSIVE findContextFromFile(_, _, _)
findContextFromFile(files, i, file) ==
    IF i > Len(files) THEN NoMatch
    ELSE IF ~FileMatchString(files[i], file).ok THEN findContextFromFile(files, i + 1, file)
    ELSE IF firstMatch(files[i].Contexts, 1, file).ok THEN firstMatch(files[i].Contexts, 1, file)
    ELSE findContextFromFile(files, i + 1, file)

FindContextFromFile(c, file) == findContextFromFile(c.Files, 1, file)

\* ------------------------------------------------------------------------
\* Config: the document as decoded, then validated and indexed by load
\* ------------------------------------------------------------------------
EmptyIndex == [k \in {} |-> k]

Metric(id, title, axis) == [ID |-> id, Title |-> title, Axis |-> axis]

Includes(functions, versions, contexts, metrics) ==
    [Functions |-> functions, Versions |-> versions, Contexts |-> contexts, Metrics |-> metrics]

Category(id, title, includes) == [ID |-> id, Title |-> title, Includes |-> includes]

\* the Config struct, as mapstructure.Decode leaves it (indices not built)
Config(name, environment, metrics, functions, contexts, versions, categories, files) ==
    [Name |-> name, IsJSON |-> FALSE, IsStrict |-> FALSE, Environment |-> environment,
     Outputs |-> [HTMLFile |-> "", PngFile |-> "", IsTemp |-> FALSE],
     Metrics |-> metrics, Functions |-> functions, Contexts |-> contexts,
     Versions |-> versions, Categories |-> categories, Files |-> files,
     functionIndex |-> EmptyIndex, contextIndex |-> EmptyIndex,
     versionIndex |-> EmptyIndex, metricIndex |-> EmptyIndex]

\* the nil *Config
NilConfig == Config("", "", <<>>, <<>>, <<>>, <<>>, <<>>, <<>>)

\* the loop of validateFunctions / validateContexts / validateVersions:
\* reject an empty ID, reject an ID already in the index, default the title
\* of the indexed copy, add the copy to the index
RECURSIVE indexObjects(_, _, _)
indexObjects(list, i, index) ==
    IF i > Len(list) THEN [err |-> "", index |-> index]
    ELSE IF list[i].ID = "" THEN [err |-> "empty ID", index |-> index]
    ELSE IF list[i].ID \in DOMAIN index THEN [err |-> "duplicate ID", index |-> index]
    ELSE LET v == IF list[i].Title = <<>>
                  THEN [list[i] EXCEPT !.Title = titleize(list[i].ID)]
                  ELSE list[i]
         IN  indexObjects(list, i + 1, (v.ID :> v) @@ index)

validateFunctions(c) ==
    LET r == indexObjects(c.Functions, 1, c.functionIndex)
    IN  [err |-> r.err, c |-> [c EXCEPT !.functionIndex = r.index]]

validateContexts(c) ==
    LET r == indexObjects(c.Contexts, 1, c.contextIndex)
    IN  [err |-> r.err, c |-> [c EXCEPT !.contextIndex = r.index]]

validateVersions(c) ==
    LET r == indexObjects(c.Versions, 1, c.versionIndex)
    IN  [err |-> r.err, c |-> [c EXCEPT !.versionIndex = r.index]]

RECURSIVE indexMetrics(_, _, _)
indexMetrics(list, i, index) ==
    IF i > Len(list) THEN [err |-> "", index |-> index]
    ELSE IF list[i].ID = "" THEN [err |-> "empty ID", index |-> index]
    ELSE IF ~IsValid(list[i].ID) THEN [err |-> "invalid metric ID", index |-> index]
    ELSE IF list[i].ID \in DOMAIN index THEN [err |-> "duplicate ID", index |-> index]
    ELSE LET v == IF list[i].Title = <<>>
                  THEN [list[i] EXCEPT !.Title = titleize(list[i].ID)]
                  ELSE list[i]
         IN  indexMetrics(list, i + 1, (v.ID :> v) @@ index)

validateMetrics(c) ==
    LET r == indexMetrics(c.Metrics, 1, c.metricIndex)
    IN  [err |-> r.err, c |-> [c EXCEPT !.metricIndex = r.index]]

IDs(list) == [i \in 1..Len(list) |-> list[i].ID]

\* validateCategory without the lookup of the included versions
validateCategoryAnyVersion(c, v) ==
    LET includes == v.Includes
        titled == IF v.Title = <<>> THEN [v EXCEPT !.Title = titleize(v.ID)] ELSE v
        functions == IF Len(includes.Functions) = 0 THEN IDs(c.Functions) ELSE includes.Functions
        contexts == IF Len(includes.Contexts) = 0 THEN IDs(c.Contexts) ELSE includes.Contexts
        versions == IF Len(includes.Versions) = 0 THEN IDs(c.Versions) ELSE includes.Versions
    IN  IF v.ID = "" THEN [err |-> "empty ID", v |-> v]
        ELSE IF \E j \in 1..Len(includes.Functions) : includes.Functions[j] \notin DOMAIN c.functionIndex
        THEN [err |-> "function ID not found", v |-> v]
        ELSE IF \E j \in 1..Len(includes.Contexts) : includes.Contexts[j] \notin DOMAIN c.contextIndex
        THEN [err |-> "context ID not found", v |-> v]
        ELSE IF \E j \in 1..Len(includes.Metrics) : includes.Metrics[j] \notin DOMAIN c.metricIndex
        THEN [err |-> "metric ID not found", v |-> v]
        ELSE IF Len(includes.Metrics) = 0 THEN [err |-> "at least 1 metric", v |-> v]
        ELSE [err |-> "",
              v |-> [titled EXCEPT !.Includes =
                        Includes(functions, versions, contexts, includes.Metrics)]]

\* validateCategory injecting every defined id, listed or not
validateCategoryInjectAll(c, v) ==
    LET includes == v.Includes
        titled == IF v.Title = <<>> THEN [v EXCEPT !.Title = titleize(v.ID)] ELSE v
    IN  IF v.ID = "" THEN [err |-> "empty ID", v |-> v]
        ELSE IF \E j \in 1..Len(includes.Functions) : includes.Functions[j] \notin DOMAIN c.functionIndex
        THEN [err |-> "function ID not found", v |-> v]
        ELSE IF \E j \in 1..Len(includes.Contexts) : includes.Contexts[j] \notin DOMAIN c.contextIndex
        THEN [err |-> "context ID not found", v |-> v]
        ELSE IF \E j \in 1..Len(includes.Versions) : includes.Versions[j] \notin DOMAIN c.versionIndex
        THEN [err |-> "version ID not found", v |-> v]
        ELSE IF \E j \in 1..Len(includes.Metrics) : includes.Metrics[j] \notin DOMAIN c.metricIndex
        THEN [err |-> "metric ID not found", v |-> v]
        ELSE IF Len(includes.Metrics) = 0 THEN [err |-> "at least 1 metric", v |-> v]
        ELSE [err |-> "",
              v |-> [titled EXCEPT !.Includes =
                        Includes(IDs(c.Functions), IDs(c.Versions), IDs(c.Contexts),
                                 includes.Metrics)]]

\* validateCategory: the category as completed, or an error
validateCategory(c, v) ==
    LET includes == v.Includes
        titled == IF v.Title = <<>> THEN [v EXCEPT !.Title = titleize(v.ID)] ELSE v
        functions == IF Len(includes.Functions) = 0 THEN IDs(c.Functions) ELSE includes.Functions
        contexts == IF Len(includes.Contexts) = 0 THEN IDs(c.Contexts) ELSE includes.Contexts
        versions == IF Len(includes.Versions) = 0 THEN IDs(c.Versions) ELSE includes.Versions
    IN  IF v.ID = "" THEN [err |-> "empty ID", v |-> v]
        ELSE IF \E j \in 1..Len(includes.Functions) : includes.Functions[j] \notin DOMAIN c.functionIndex
        THEN [err |-> "function ID not found", v |-> v]
        ELSE IF \E j \in 1..Len(includes.Contexts) : includes.Contexts[j] \notin DOMAIN c.contextIndex
        THEN [err |-> "context ID not found", v |-> v]
        ELSE IF \E j \in 1..Len(includes.Versions) : includes.Versions[j] \notin DOMAIN c.versionIndex
        THEN [err |-> "version ID not found", v |-> v]
        ELSE IF \E j \in 1..Len(includes.Metrics) : includes.Metrics[j] \notin DOMAIN c.metricIndex
        THEN [err |-> "metric ID not found", v |-> v]
        ELSE IF Len(includes.Metrics) = 0 THEN [err |-> "at least 1 metric", v |-> v]
        ELSE [err |-> "",
              v |-> [titled EXCEPT !.Includes =
                        Includes(functions, versions, contexts, includes.Metrics)]]

RECURSIVE validateCategoriesFrom(_, _)
validateCategoriesFrom(c, i) ==
    IF i > Len(c.Categories) THEN [err |-> "", c |-> c]
    ELSE LET r == validateCategory(c, c.Categories[i])
         IN  IF r.err # "" THEN [err |-> r.err, c |-> c]
             ELSE validateCategoriesFrom([c EXCEPT !.Categories[i] = r.v], i + 1)

validateCategories(c) == validateCategoriesFrom(c, 1)

\* compileRex: an empty pattern leaves its matcher nil
compileRex(o) ==
    LET m == IF o.Match # "" THEN regexpCompile(o.Match) ELSE [err |-> "", re |-> NilRegexp]
        n == IF o.NotMatch # "" THEN regexpCompile(o.NotMatch) ELSE [err |-> "", re |-> NilRegexp]
    IN  IF m.err # "" THEN [err |-> m.err, match |-> NilRegexp, notMatch |-> NilRegexp]
        ELSE IF n.err # "" THEN [err |-> n.err, match |-> NilRegexp, notMatch |-> NilRegexp]
        ELSE [err |-> "", match |-> m.re, notMatch |-> n.re]

\* the loops of validateRegexps over Functions, Contexts and Versions
RECURSIVE compileObjects(_, _)
compileObjects(list, i) ==
    IF i > Len(list) THEN [err |-> "", list |-> list]
    ELSE LET r == compileRex(list[i])
         IN  IF r.err # "" THEN [err |-> "invalid regexp", list |-> list]
             ELSE compileObjects([list EXCEPT ![i].match = r.match, ![i].notMatch = r.notMatch],
                                 i + 1)

\* the loops of validateRegexps over the contexts or versions nested in a
\* file rule: the ID must be indexed, then the patterns are compiled
RECURSIVE compileNested(_, _, _)
compileNested(list, i, index) ==
    IF i > Len(list) THEN [err |-> "", list |-> list]
    ELSE IF list[i].ID \notin DOMAIN index THEN [err |-> "ID not found", list |-> list]
    ELSE LET r == compileRex(list[i])
         IN  IF r.err # "" THEN [err |-> "invalid regexp", list |-> list]
             ELSE compileNested([list EXCEPT ![i].match = r.match, ![i].notMatch = r.notMatch],
                                i + 1, index)

\* the loop of validateRegexps over Files
RECURSIVE compileFiles(_, _)
compileFiles(c, i) ==
    IF i > Len(c.Files) THEN [err |-> "", c |-> c]
    ELSE LET container == c.Files[i]
             m == regexpCompile(container.MatchFile)
             ctx == compileNested(container.Contexts, 1, c.contextIndex)
             ver == compileNested(container.Versions, 1, c.versionIndex)
         IN  IF container.ID = "" THEN [err |-> "missing ID for file", c |-> c]
             ELSE IF container.MatchFile = "" THEN compileFiles(c, i + 1)
             ELSE IF m.err # "" THEN [err |-> m.err, c |-> c]
             ELSE IF ctx.err # "" THEN [err |-> ctx.err, c |-> c]
             ELSE IF ver.err # "" THEN [err |-> ver.err, c |-> c]
             ELSE compileFiles([c EXCEPT !.Files[i] =
                                   [container EXCEPT !.match = m.re,
                                                     !.Contexts = ctx.list,
                                                     !.Versions = ver.list]],
                               i + 1)

validateRegexps(c) ==
    LET f == compileObjects(c.Functions, 1)
        x == compileObjects(c.Contexts, 1)
        v == compileObjects(c.Versions, 1)
    IN  IF f.err # "" THEN [err |-> f.err, c |-> c]
        ELSE IF x.err # "" THEN [err |-> x.err, c |-> c]
        ELSE IF v.err # "" THEN [err |-> v.err, c |-> c]
        ELSE compileFiles([c EXCEPT !.Functions = f.list, !.Contexts = x.list,
                                    !.Versions = v.list], 1)

\* the steps of load after the first: if err = cfg.validateX(); err != nil
\* { return nil, err }
thenValidateContexts(r) == IF r.err # "" THEN r ELSE validateContexts(r.c)

thenValidateVersions(r) == IF r.err # "" THEN r ELSE validateVersions(r.c)

thenValidateMetrics(r) == IF r.err # "" THEN r ELSE validateMetrics(r.c)

thenValidateCategories(r) == IF r.err # "" THEN r ELSE validateCategories(r.c)

thenValidateRegexps(r) == IF r.err # "" THEN r ELSE validateRegexps(r.c)

\* load returning the Config as far as it was validated with the error
loadResultPartial(r) == [err |-> r.err, cfg |-> r.c]

\* what load returns: the Config or the error, never both
loadResult(r) == [err |-> r.err, cfg |-> IF r.err # "" THEN NilConfig ELSE r.c]

\* load, from the decoded document on: every validation step in turn, the
\* first error ends the load and no Config is returned
load(decoded) ==
    loadResult(
        thenValidateRegexps(thenValidateCategories(thenValidateMetrics(
            thenValidateVersions(thenValidateContexts(
                validateFunctions([decoded EXCEPT !.functionIndex = EmptyIndex,
                                                  !.contextIndex = EmptyIndex,
                                                  !.versionIndex = EmptyIndex,
                                                  !.metricIndex = EmptyIndex])))))))

\* GetFunction / GetContext / GetMetric / GetVersion: the entry of the
\* index, when there is one
GetFunction(c, id) ==
    IF id \in DOMAIN c.functionIndex
    THEN [v |-> c.functionIndex[id], ok |-> TRUE]
    ELSE [v |-> Object("", <<>>, "", ""), ok |-> FALSE]

GetContext(c, id) ==
    IF id \in DOMAIN c.contextIndex
    THEN [v |-> c.contextIndex[id], ok |-> TRUE]
    ELSE [v |-> Object("", <<>>, "", ""), ok |-> FALSE]

GetMetric(c, id) ==
    IF id \in DOMAIN c.metricIndex
    THEN [v |-> c.metricIndex[id], ok |-> TRUE]
    ELSE [v |-> Metric("", <<>>, ""), ok |-> FALSE]

GetVersion(c, id) ==
    IF id \in DOMAIN c.versionIndex
    THEN [v |-> c.versionIndex[id], ok |-> TRUE]
    ELSE [v |-> Object("", <<>>, "", ""), ok |-> FALSE]

\* ------------------------------------------------------------------------
\* Generate and EncodeYAML
\* ------------------------------------------------------------------------
\* the strings that are spelled out
Strings ==
    {"", "a", "a-b", "(", "\\(", "Benchmark", "BenchmarkA", "BenchmarkA-8", "Benchmark_a",
     "BenchmarkA/b", "BenchmarkA-b"}

\* the string made of the characters
Spelled(chars) == CHOOSE str \in Strings : Chars(str) = chars

\* strings.TrimPrefix
TrimPrefix(chars, prefix) ==
    IF Len(chars) >= Len(prefix) /\ SubSeq(chars, 1, Len(prefix)) = prefix
    THEN SubSeq(chars, Len(prefix) + 1, Len(chars))
    ELSE chars

\* strings.LastIndex for one character, counted from 1, 0 when absent
LastIndex(chars, ch) ==
    IF \E i \in 1..Len(chars) : chars[i] = ch
    THEN CHOOSE i \in 1..Len(chars) :
             chars[i] = ch /\ \A j \in (i + 1)..Len(chars) : chars[j] # ch
    ELSE 0

Digits == {"0", "1", "2", "3", "4", "5", "6", "7", "8", "9"}

\* strings.ToLower, one character
Lower(ch) ==
    CASE ch = "A" -> "a"
      [] ch = "B" -> "b"
      [] OTHER -> ch

\* benchNameToID: the "Benchmark" prefix and a leading '_' are removed, then
\* a trailing "-<digits>" that is not at the start, '/' and '_' become '-',
\* everything is lower-cased
benchNameToID(name) ==
    LET trimmed == TrimPrefix(TrimPrefix(Chars(name), Chars("Benchmark")), <<"_">>)
        idx == LastIndex(trimmed, "-")
        suffix == SubSeq(trimmed, idx + 1, Len(trimmed))
        stripped == IF /\ idx > 1
                       /\ \A i \in 1..Len(suffix) : suffix[i] \in Digits
                       /\ Len(suffix) > 0
                    THEN SubSeq(trimmed, 1, idx - 1)
                    ELSE trimmed
    IN  Spelled([i \in 1..Len(stripped) |->
                    IF stripped[i] \in {"/", "_"} THEN "-" ELSE Lower(stripped[i])])

\* the characters regexp.QuoteMeta escapes, among those of the names
MetaCharacters == {"(", "\\"}

\* regexp.QuoteMeta: a backslash before every metacharacter
RECURSIVE quoteMeta(_)
quoteMeta(chars) ==
    IF chars = <<>> THEN <<>>
    ELSE (IF Head(chars) \in MetaCharacters THEN <<"\\", Head(chars)>> ELSE <<Head(chars)>>)
         \o quoteMeta(Tail(chars))

QuoteMeta(name) == Spelled(quoteMeta(Chars(name)))

\* the embedded defaults: one metric per metric name, each with a title
\* and an axis, and nothing else that Generate or the validation reads
loadDefaults ==
    Config("defaults", "",
           [i \in 1..Len(AllMetricNames) |->
               Metric(AllMetricNames[i],
                      IF AllMetricNames[i] = MetricNsPerOp THEN <<"Benchmark Timings">>
                      ELSE <<"Benchmark", AllMetricNames[i]>>,
                      AllMetricNames[i])],
           <<>>, <<>>, <<>>, <<>>, <<>>)

\* the metrics loop of Generate: the default metric of that name, or else
\* a metric titled after its name
generateMetrics(names, defaults) ==
    [i \in 1..Len(names) |->
        IF \E k \in 1..Len(defaults.Metrics) : defaults.Metrics[k].ID = names[i]
        THEN defaults.Metrics[CHOOSE k \in 1..Len(defaults.Metrics) :
                                  defaults.Metrics[k].ID = names[i]]
        ELSE Metric(names[i], titleize(names[i]), "")]

\* a functions loop that keeps a function for every name
RECURSIVE generateEveryFunction(_, _, _)
generateEveryFunction(names, i, functions) ==
    IF i > Len(names) THEN functions
    ELSE generateEveryFunction(names, i + 1,
             Append(functions,
                    Object(benchNameToID(names[i]), titleize(benchNameToID(names[i])),
                           QuoteMeta(names[i]), "")))

\* the functions loop of Generate: a name whose id was seen is skipped
RECURSIVE generateFunctions(_, _, _)
generateFunctions(names, i, functions) ==
    IF i > Len(names) THEN functions
    ELSE IF \E k \in 1..Len(functions) : functions[k].ID = benchNameToID(names[i])
    THEN generateFunctions(names, i + 1, functions)
    ELSE generateFunctions(names, i + 1,
             Append(functions,
                    Object(benchNameToID(names[i]), titleize(benchNameToID(names[i])),
                           QuoteMeta(names[i]), "")))

\* the Config Generate assembles: the metrics, the functions, and one
\* category that bundles them
generatedConfig(metrics, functions) ==
    Config("Generated Config", "", metrics, functions, <<>>, <<>>,
           <<Category("all", <<"All Benchmarks ({metric})">>,
                      Includes(IDs(functions), <<>>, <<>>, IDs(metrics)))>>,
           <<>>)

Generate(in) ==
    generatedConfig(generateMetrics(in.Metrics, loadDefaults),
                    generateFunctions(in.Functions, 1, <<>>))

\* the fields of a rule, a metric, a category, a file rule that are written
\* to the document
encodeObject(o) == [ID |-> o.ID, Title |-> o.Title, Match |-> o.Match, NotMatch |-> o.NotMatch]

encodeObjects(list) == [i \in 1..Len(list) |-> encodeObject(list[i])]

encodeFiles(list) ==
    [i \in 1..Len(list) |->
        [ID |-> list[i].ID, MatchFile |-> list[i].MatchFile,
         Contexts |-> encodeObjects(list[i].Contexts),
         Versions |-> encodeObjects(list[i].Versions)]]

\* EncodeYAML: the exported fields of the Config but the runtime-only ones;
\* indices and compiled patterns are not exported
EncodeYAML(c) ==
    [Name |-> c.Name, Environment |-> c.Environment, Metrics |-> c.Metrics,
     Functions |-> encodeObjects(c.Functions), Contexts |-> encodeObjects(c.Contexts),
     Versions |-> encodeObjects(c.Versions), Categories |-> c.Categories,
     Files |-> encodeFiles(c.Files)]

decodeObjects(list) ==
    [i \in 1..Len(list) |-> Object(list[i].ID, list[i].Title, list[i].Match, list[i].NotMatch)]

decodeFiles(list) ==
    [i \in 1..Len(list) |->
        File(list[i].ID, list[i].MatchFile, decodeObjects(list[i].Contexts),
             decodeObjects(list[i].Versions))]

\* mapstructure.Decode of a document that writes every field, over the
\* defaults: every list is cut to the length of the document's and every
\* field written replaces the default; the runtime-only fields stay
Decode(document, defaults) ==
    [defaults EXCEPT !.Name = document.Name,
                     !.Environment = document.Environment,
                     !.Metrics = document.Metrics,
                     !.Functions = decodeObjects(document.Functions),
                     !.Contexts = decodeObjects(document.Contexts),
                     !.Versions = decodeObjects(document.Versions),
                     !.Categories = document.Categories,
                     !.Files = decodeFiles(document.Files)]

\* ------------------------------------------------------------------------
\* Input of the organizer: parser.Set wraps a parse.Set, a map from the
\* benchmark name to the benchmarks of that name, in input order
\* ------------------------------------------------------------------------
Benchmark(name, nsPerOp, allocsPerOp, allocedBytesPerOp, mbPerS) ==
    [Name |-> name, NsPerOp |-> nsPerOp, AllocsPerOp |-> allocsPerOp,
     AllocedBytesPerOp |-> allocedBytesPerOp, MBPerS |-> mbPerS]

\* ------------------------------------------------------------------------
\* Organizer
\* ------------------------------------------------------------------------
defaultString(in, def) == IF in = "" THEN def ELSE in

stringDefault(in, def) == IF in = "" THEN def ELSE in

\* the zero ParsedBenchmark
NoParsed ==
    [Function |-> "", Version |-> "", Context |-> "", Metric |-> "",
     Name |-> <<>>, Value |-> 0, Environment |-> ""]

\* a parseBenchmarkName that keeps a benchmark no function matches
parseBenchmarkNameKeepUnmatched(c, name, file, env) ==
    [parsed |-> [NoParsed EXCEPT
                    !.Function = FindFunction(c, name).id,
                    !.Version = IF FindVersion(c, name).ok THEN FindVersion(c, name).id
                                ELSE FindVersionFromFile(c, file).id,
                    !.Context = IF FindContext(c, name).ok THEN FindContext(c, name).id
                                ELSE FindContextFromFile(c, file).id,
                    !.Environment = defaultString(c.Environment, env)],
     ok |-> TRUE]

\* a parseBenchmarkName that looks at the file before the name
parseBenchmarkNameFileFirst(c, name, file, env) ==
    IF ~FindFunction(c, name).ok THEN [parsed |-> NoParsed, ok |-> FALSE]
    ELSE [parsed |-> [NoParsed EXCEPT
                         !.Function = FindFunction(c, name).id,
                         !.Version = IF FindVersionFromFile(c, file).ok
                                     THEN FindVersionFromFile(c, file).id
                                     ELSE FindVersion(c, name).id,
                         !.Context = IF FindContextFromFile(c, file).ok
                                     THEN FindContextFromFile(c, file).id
                                     ELSE FindContext(c, name).id,
                         !.Environment = defaultString(c.Environment, env)],
          ok |-> TRUE]

\* a parseBenchmarkName that prefers the environment of the input to the
\* one of the configuration
parseBenchmarkNameInputFirst(c, name, file, env) ==
    IF ~FindFunction(c, name).ok THEN [parsed |-> NoParsed, ok |-> FALSE]
    ELSE [parsed |-> [NoParsed EXCEPT
                         !.Function = FindFunction(c, name).id,
                         !.Version = IF FindVersion(c, name).ok THEN FindVersion(c, name).id
                                     ELSE FindVersionFromFile(c, file).id,
                         !.Context = IF FindContext(c, name).ok THEN FindContext(c, name).id
                                     ELSE FindContextFromFile(c, file).id,
                         !.Environment = defaultString(env, c.Environment)],
          ok |-> TRUE]

\* parseBenchmarkName: the (function, version, context) of a benchmark
parseBenchmarkName(c, name, file, env) ==
    LET function == FindFunction(c, name)
        byName   == FindVersion(c, name)
        version  == IF byName.ok THEN byName.id ELSE FindVersionFromFile(c, file).id
        ctxName  == FindContext(c, name)
        context  == IF ctxName.ok THEN ctxName.id ELSE FindContextFromFile(c, file).id
    IN  IF ~function.ok THEN [parsed |-> NoParsed, ok |-> FALSE]
        ELSE [parsed |-> [NoParsed EXCEPT !.Function = function.id,
                                          !.Version = version,
                                          !.Context = context,
                                          !.Environment = defaultString(c.Environment, env)],
              ok |-> TRUE]

\* resolveMetric: one more ParsedBenchmark when the metric is configured
resolveMetric(c, search, parsed, value, benchmarks) ==
    IF GetMetric(c, search).ok
    THEN [benchmarks |-> Append(benchmarks,
                                [parsed EXCEPT !.Metric = GetMetric(c, search).v.ID,
                                               !.Name = GetMetric(c, search).v.Title,
                                               !.Value = value]),
          ok |-> TRUE]
    ELSE [benchmarks |-> benchmarks, ok |-> FALSE]

\* the body of the innermost loop of parseBenchmarks, once the metrics
\* of the benchmark have been through resolveMetric
ingested(c, acc) ==
    IF ~acc.resolved
    THEN [err |-> IF c.IsStrict THEN "empty series" ELSE "", benchmarks |-> acc.benchmarks]
    ELSE [err |-> "", benchmarks |-> acc.benchmarks]

\* resolved = resolved || ok
accumulate(resolved, r) == [benchmarks |-> r.benchmarks, resolved |-> resolved \/ r.ok]

resolveAlso(c, search, parsed, value, acc) ==
    accumulate(acc.resolved, resolveMetric(c, search, parsed, value, acc.benchmarks))

\* calls of resolveMetric that bind allocsPerOp to the NsPerOp field
resolveMetricsWrongField(c, parsed, bench, benchmarks) ==
    resolveAlso(c, MetricMBPerS, parsed, bench.MBPerS,
        resolveAlso(c, MetricBytesPerOp, parsed, bench.AllocedBytesPerOp,
            resolveAlso(c, MetricAllocsPerOp, parsed, bench.NsPerOp,
                resolveAlso(c, MetricNsPerOp, parsed, bench.NsPerOp,
                            [benchmarks |-> benchmarks, resolved |-> FALSE]))))

\* the four calls of resolveMetric for one benchmark, in the order of the code
resolveMetrics(c, parsed, bench, benchmarks) ==
    resolveAlso(c, MetricMBPerS, parsed, bench.MBPerS,
        resolveAlso(c, MetricBytesPerOp, parsed, bench.AllocedBytesPerOp,
            resolveAlso(c, MetricAllocsPerOp, parsed, bench.AllocsPerOp,
                resolveAlso(c, MetricNsPerOp, parsed, bench.NsPerOp,
                            [benchmarks |-> benchmarks, resolved |-> FALSE]))))

\* a loop body for which a benchmark that is not ingested is an error in
\* every mode
ingestStrictly(c, bench, named, benchmarks) ==
    IF ~named.ok
    THEN [err |-> "not ingested", benchmarks |-> benchmarks]
    ELSE ingested(c, resolveMetrics(c, named.parsed, bench, benchmarks))

\* the body of the innermost loop of parseBenchmarks, once the benchmark
\* has been through parseBenchmarkName
ingest(c, bench, named, benchmarks) ==
    IF ~named.ok
    THEN [err |-> IF c.IsStrict THEN "not ingested" ELSE "", benchmarks |-> benchmarks]
    ELSE ingested(c, resolveMetrics(c, named.parsed, bench, benchmarks))

\* a loop body that never fails on a benchmark, strict mode or not
parseBenchmarkLenient(c, bench, file, env, benchmarks) ==
    [err |-> "",
     benchmarks |-> ingest(c, bench, parseBenchmarkName(c, bench.Name, file, env),
                           benchmarks).benchmarks]

\* the body of the innermost loop of parseBenchmarks, for one benchmark
parseBenchmark(c, bench, file, env, benchmarks) ==
    ingest(c, bench, parseBenchmarkName(c, bench.Name, file, env), benchmarks)

\* the loop over the benchmarks of one entry of the parse.Set map
RECURSIVE parseEntry(_, _, _, _, _, _)
parseRest(c, benchs, i, file, env, r) ==
    IF r.err # "" THEN r ELSE parseEntry(c, benchs, i + 1, file, env, r.benchmarks)

parseEntry(c, benchs, i, file, env, benchmarks) ==
    IF i > Len(benchs) THEN [err |-> "", benchmarks |-> benchmarks]
    ELSE parseRest(c, benchs, i, file, env, parseBenchmark(c, benchs[i], file, env, benchmarks))

\* BenchmarkSet.Environment: the first non-empty environment
RECURSIVE firstEnvironment(_, _)
firstEnvironment(set, i) ==
    IF i > Len(set) THEN ""
    ELSE IF set[i].Environment # "" THEN set[i].Environment
    ELSE firstEnvironment(set, i + 1)

Environment(set) == firstEnvironment(set, 1)

\* the label of a point: function + " - " + version + " - " + context
PointName(function, version, context) == <<function, " - ", version, " - ", context>>

MetricPoint(bench) ==
    [Function |-> bench.Function, Version |-> bench.Version, Context |-> bench.Context,
     Metric |-> bench.Metric,
     Name |-> PointName(bench.Function, bench.Version, bench.Context),
     Value |-> bench.Value]

\* an innermost loop that takes the benchmarks of every version
pointsOfAnyVersion(set, k, metric, wantFunction, version, wantContext) ==
    LET Wanted(b) == b.Metric = metric /\ b.Function = wantFunction /\ b.Context = wantContext
        found == SelectSeq([i \in 1..(Len(set) + 1 - k) |-> set[i + k - 1]], Wanted)
    IN  [i \in 1..Len(found) |-> MetricPoint(found[i])]

\* an innermost loop that takes the benchmarks of every context
pointsOfAnyContext(set, k, metric, wantFunction, version, wantContext) ==
    LET Wanted(b) == b.Metric = metric /\ b.Function = wantFunction /\ b.Version = version
    IN  [i \in 1..Len(SelectSeq(set, Wanted)) |-> MetricPoint(SelectSeq(set, Wanted)[i])]

\* the innermost loop of SeriesFor: the benchmarks with the wanted key
RECURSIVE pointsOfKey(_, _, _, _, _, _)
pointsOfKey(set, k, metric, wantFunction, version, wantContext) ==
    IF k > Len(set) THEN <<>>
    ELSE IF set[k].Metric # metric \/ set[k].Function # wantFunction
            \/ set[k].Version # version \/ set[k].Context # wantContext
    THEN pointsOfKey(set, k + 1, metric, wantFunction, version, wantContext)
    ELSE <<MetricPoint(set[k])>> \o pointsOfKey(set, k + 1, metric, wantFunction, version, wantContext)

\* the loop of SeriesFor over the included contexts
RECURSIVE pointsOfFunction(_, _, _, _, _, _)
pointsOfFunction(set, metric, wantFunction, version, contexts, j) ==
    IF j > Len(contexts) THEN <<>>
    ELSE pointsOfKey(set, 1, metric, wantFunction, version, contexts[j])
         \o pointsOfFunction(set, metric, wantFunction, version, contexts, j + 1)

\* the loop of SeriesFor over the included functions
RECURSIVE pointsOfSeries(_, _, _, _, _)
pointsOfSeries(set, metric, version, filter, i) ==
    IF i > Len(filter.Includes.Functions) THEN <<>>
    ELSE pointsOfFunction(set, metric, filter.Includes.Functions[i], version,
                          filter.Includes.Contexts, 1)
         \o pointsOfSeries(set, metric, version, filter, i + 1)

\* BenchmarkSet.SeriesFor: a single series for 1 metric and 1 version
SeriesFor(set, metric, version, filter) ==
    << [Function |-> "", Version |-> version, Context |-> "", Metric |-> metric,
        Title |-> version,
        Points |-> pointsOfSeries(set, metric, version, filter, 1)] >>

\* the same loops with the versions outside and the metrics inside
CategoryDataVersionMajor(c, set, categoryConfig) ==
    LET metrics  == categoryConfig.Includes.Metrics
        versions == categoryConfig.Includes.Versions
        n == Len(metrics)
    IN  [p \in 1..(Len(versions) * n) |->
            LET metric  == GetMetric(c, metrics[((p - 1) % n) + 1]).v
                version == GetVersion(c, versions[((p - 1) \div n) + 1]).v
            IN  [Metric |-> metric, Version |-> version,
                 Series |-> SeriesFor(set, metric.ID, version.ID, categoryConfig)]]

\* the loops of populateCategories over the included metrics and versions
\* of one category: one CategoryData per (metric, version), metric-major
CategoryDataOf(c, set, categoryConfig) ==
    LET metrics  == categoryConfig.Includes.Metrics
        versions == categoryConfig.Includes.Versions
        n == Len(versions)
    IN  [p \in 1..(Len(metrics) * n) |->
            LET metric  == GetMetric(c, metrics[((p - 1) \div n) + 1]).v
                version == GetVersion(c, versions[((p - 1) % n) + 1]).v
            IN  [Metric |-> metric, Version |-> version,
                 Series |-> SeriesFor(set, metric.ID, version.ID, categoryConfig)]]

\* the body of the loop of populateCategories, for one category
populateCategory(c, set, categoryConfig) ==
    LET data == CategoryDataOf(c, set, categoryConfig)
        category == [ID |-> categoryConfig.ID, Title |-> categoryConfig.Title,
                     Environment |-> IF Len(data) = 0 THEN ""
                                     ELSE stringDefault(c.Environment, Environment(set)),
                     Data |-> data]
    IN  IF Len(data) = 0
        THEN [err |-> IF c.IsStrict THEN "no data for category" ELSE "",
              keep |-> FALSE, category |-> category]
        ELSE [err |-> "", keep |-> TRUE, category |-> category]

\* ------------------------------------------------------------------------
\* The command line (cmd)
\* ------------------------------------------------------------------------
\* registerFlags: the field of the Command each flag is bound to
FlagTarget(flag) ==
    CASE flag = "-json" -> "IsJSON"
      [] flag \in {"-config", "-c"} -> "Config"
      [] flag \in {"-output", "-o"} -> "OutputFile"
      [] flag \in {"-environment", "-e"} -> "Environment"
      [] flag \in {"-r", "-report"} -> "Report"
      [] flag = "-png" -> "Png"
      [] flag = "-strict" -> "Png"
      [] flag = "-generate-config" -> "GenerateConfig"

\* the flags registered with flag.BoolVar
BoolFlags == {"-json", "-r", "-report", "-png", "-strict", "-generate-config"}

\* NewCommand: the Command once registerFlags has set the default of every
\* field bound to a flag; no flag is bound to IsStrict
NewCommand ==
    [Config |-> "benchviz.yaml", OutputFile |-> "-", IsJSON |-> FALSE, Environment |-> "",
     Report |-> FALSE, GenerateConfig |-> FALSE, Png |-> FALSE, IsStrict |-> FALSE]

\* Command.Parse: every flag given sets the field it is bound to, a
\* boolean flag to true, the other flags to their value
Parse(c, args) ==
    [field \in DOMAIN c |->
        IF \E a \in args : FlagTarget(a[1]) = field
        THEN LET a == CHOOSE a \in args : FlagTarget(a[1]) = field
             IN  IF a[1] \in BoolFlags THEN TRUE ELSE a[2]
        ELSE c[field]]

\* path.Ext and strings.CutSuffix: the file name without its extension
CutExt(base) ==
    CASE base = "out.html" -> "out"
      [] base = "out.txt" -> "out"
      [] OTHER -> base

inferHTMLFile(base) ==
    CASE CutExt(base) = "out" -> "out.html"
      [] CutExt(base) = "-" -> "-.html"

inferImageFile(base) ==
    CASE CutExt(base) = "out" -> "out.png"
      [] CutExt(base) = "-" -> "-.png"

\* setConfig, down to the report flag: the overrides of the flags
overridden(c, cfg) ==
    [cfg EXCEPT
        !.IsJSON = c.IsJSON,
        !.IsStrict = IF c.IsStrict THEN TRUE ELSE @,
        !.Environment = IF c.Environment # "" THEN c.Environment ELSE @,
        !.Outputs.HTMLFile = IF c.OutputFile # "" /\ c.OutputFile # "-"
                             THEN inferHTMLFile(c.OutputFile) ELSE @,
        !.Outputs.PngFile = IF c.OutputFile # "" /\ c.OutputFile # "-" /\ c.Png
                            THEN inferImageFile(inferHTMLFile(c.OutputFile)) ELSE @]

\* setConfig, from the report flag on: where the HTML goes when no output
\* file was given; tempOK tells whether os.CreateTemp succeeds
outputsSet(c, cfg, tempOK) ==
    IF c.Report THEN [err |-> "", cfg |-> cfg]
    ELSE IF cfg.Outputs.HTMLFile = "" /\ cfg.Outputs.PngFile = ""
    THEN [err |-> "", cfg |-> [cfg EXCEPT !.Outputs.HTMLFile = "-"]]
    ELSE IF cfg.Outputs.HTMLFile = "" /\ cfg.Outputs.PngFile # ""
    THEN IF tempOK
         THEN [err |-> "", cfg |-> [cfg EXCEPT !.Outputs.HTMLFile = "benchviz.tmp.html",
                                               !.Outputs.IsTemp = TRUE]]
         ELSE [err |-> "create temp", cfg |-> cfg]
    ELSE [err |-> "", cfg |-> cfg]

\* Command.setConfig
setConfig(c, cfg, tempOK) == outputsSet(c, overridden(c, cfg), tempOK)

\* ------------------------------------------------------------------------
\* State
\* ------------------------------------------------------------------------
VARIABLES
    osArgs,      \* the flags given on the command line, each with its value
    command,     \* the Command, its fields bound to the flags
    parser,      \* the BenchmarkParser: the sets it has accumulated
    lastCall,    \* the last call of ParseFiles: its files and the error returned
    input,       \* the GenerateInput handed to Generate
    generated,   \* the *Config returned by Generate (NilConfig before)
    decoded,     \* the Config as mapstructure.Decode fills it from the document
    sets,        \* the []parser.Set handed to Scenarize
    cfg,         \* the *Config returned by load (NilConfig when nil)
    loadErr,     \* the error returned by load ("" when nil)
    pc,          \* where the run is
    setIdx,      \* parseBenchmarks: index of the current parser.Set
    pending,     \* parseBenchmarks: map keys of the current set not yet iterated
    benchmarks,  \* parseBenchmarks: the []ParsedBenchmark built so far
    catIdx,      \* populateCategories: index of the current category
    scenario,    \* the *model.Scenario being built, then returned
    err,         \* the error returned by Scenarize ("" when nil)
    probe        \* the last lookup made on the rule store and its result

vars == <<osArgs, command, parser, lastCall, input, generated, decoded, sets, cfg, loadErr, pc, setIdx, pending, benchmarks, catIdx,
          scenario, err, probe>>

\* parser.New: no set yet
NewParser == [sets |-> <<>>]

\* no call of ParseFiles yet
NoCall == [files |-> <<>>, err |-> ""]

NilScenario == [isNil |-> TRUE, Name |-> "", Categories |-> <<>>]

NoProbe == [op |-> "none", obj |-> Object("", <<>>, "", ""), name |-> {}, res |-> NoMatch]

\* the zero GenerateInput
NoInput == [Functions |-> <<>>, Metrics |-> <<>>]

InitWith(d, s) ==
    /\ osArgs = {}
    /\ command = NewCommand
    /\ parser = NewParser
    /\ lastCall = NoCall
    /\ input = NoInput
    /\ generated = NilConfig
    /\ decoded = d
    /\ sets = s
    /\ cfg = NilConfig
    /\ loadErr = ""
    /\ pc = "start"
    /\ setIdx = 0
    /\ pending = {}
    /\ benchmarks = <<>>
    /\ catIdx = 0
    /\ scenario = NilScenario
    /\ err = ""
    /\ probe = NoProbe

\* ------------------------------------------------------------------------
\* Operations
\* ------------------------------------------------------------------------
\* config.Load returns
Loaded(r) ==
    /\ cfg' = r.cfg
    /\ loadErr' = r.err
    /\ pc' = IF r.err = "" THEN "loaded" ELSE "loadFailed"

\* config.Load, from the decoded document on
Load ==
    /\ pc = "start"
    /\ Loaded(load(decoded))
    /\ UNCHANGED <<osArgs, command, parser, lastCall, input, generated, decoded, sets, setIdx, pending, benchmarks, catIdx, scenario, err, probe>>

\* the caller turns strict mode on (Command.setConfig: cfg.IsStrict = true)
SetStrict ==
    /\ pc = "loaded"
    /\ ~cfg.IsStrict
    /\ cfg' = [cfg EXCEPT !.IsStrict = TRUE]
    /\ UNCHANGED <<osArgs, command, parser, lastCall, input, generated, decoded, sets, loadErr, pc, setIdx, pending, benchmarks, catIdx,
                   scenario, err, probe>>

\* a Scenarize that empties the file rules of the configuration
ScenarizeDroppingFiles ==
    /\ pc = "loaded"
    /\ pc' = "parsing"
    /\ setIdx' = 0
    /\ pending' = {}
    /\ benchmarks' = <<>>
    /\ cfg' = [cfg EXCEPT !.Files = <<>>]
    /\ UNCHANGED <<osArgs, command, parser, lastCall, input, generated, decoded, sets, loadErr, catIdx, scenario,
                   err, probe>>

\* Scenarize is called: parseBenchmarks starts with no benchmark
Scenarize ==
    /\ pc = "loaded"
    /\ pc' = "parsing"
    /\ setIdx' = 0
    /\ pending' = {}
    /\ benchmarks' = <<>>
    /\ UNCHANGED <<osArgs, command, parser, lastCall, input, generated, decoded, sets, cfg, loadErr, catIdx, scenario, err, probe>>

\* parseBenchmarks: the outer loop moves to the next parser.Set
NextSet ==
    /\ pc = "parsing"
    /\ pending = {}
    /\ setIdx < Len(sets)
    /\ setIdx' = setIdx + 1
    /\ pending' = DOMAIN sets[setIdx + 1].Set
    /\ UNCHANGED <<osArgs, command, parser, lastCall, input, generated, decoded, sets, cfg, loadErr, pc, benchmarks, catIdx, scenario, err, probe>>

\* parseBenchmarks: the entry of the map has been through the inner loop
EntryParsed(name, r) ==
    /\ benchmarks' = r.benchmarks
    /\ IF r.err # ""
       THEN /\ pc' = "failed"
            /\ err' = r.err
            /\ pending' = pending
       ELSE /\ pc' = pc
            /\ err' = err
            /\ pending' = pending \ {name}

\* parseBenchmarks: one entry of the parse.Set map, whichever the map
\* iteration yields next, with all the benchmarks of that name
ParseEntry ==
    /\ pc = "parsing"
    /\ \E name \in pending :
          EntryParsed(name, parseEntry(cfg, sets[setIdx].Set[name], 1, sets[setIdx].File,
                                       sets[setIdx].Environment, benchmarks))
    /\ UNCHANGED <<osArgs, command, parser, lastCall, input, generated, decoded, sets, cfg, loadErr, setIdx, catIdx, scenario, probe>>

\* parseBenchmarks: after the loops, the empty set check, then
\* populateCategories starts with an empty scenario
EndParse ==
    /\ pc = "parsing"
    /\ pending = {}
    /\ setIdx = Len(sets)
    /\ IF Len(benchmarks) = 0 /\ cfg.IsStrict
       THEN /\ pc' = "failed"
            /\ err' = "empty benchmark set"
            /\ UNCHANGED <<catIdx, scenario>>
       ELSE /\ pc' = "populating"
            /\ catIdx' = 1
            /\ scenario' = [isNil |-> FALSE, Name |-> cfg.Name, Categories |-> <<>>]
            /\ err' = err
    /\ UNCHANGED <<osArgs, command, parser, lastCall, input, generated, decoded, sets, cfg, loadErr, setIdx, pending, benchmarks, probe>>

\* populateCategories: one category of the configuration
PopulateCategory ==
    /\ pc = "populating"
    /\ catIdx <= Len(cfg.Categories)
    /\ LET r == populateCategory(cfg, benchmarks, cfg.Categories[catIdx])
       IN  IF r.err # ""
           THEN /\ pc' = "failed"
                /\ err' = r.err
                /\ scenario' = NilScenario
                /\ catIdx' = catIdx
           ELSE /\ pc' = pc
                /\ err' = err
                /\ scenario' = IF r.keep
                               THEN [scenario EXCEPT !.Categories = Append(@, r.category)]
                               ELSE scenario
                /\ catIdx' = catIdx + 1
    /\ UNCHANGED <<osArgs, command, parser, lastCall, input, generated, decoded, sets, cfg, loadErr, setIdx, pending, benchmarks, probe>>

\* populateCategories and Scenarize return the scenario
EndPopulate ==
    /\ pc = "populating"
    /\ catIdx > Len(cfg.Categories)
    /\ pc' = "done"
    /\ UNCHANGED <<osArgs, command, parser, lastCall, input, generated, decoded, sets, cfg, loadErr, setIdx, pending, benchmarks, catIdx,
                   scenario, err, probe>>

\* ------------------------------------------------------------------------
\* Inputs of the organizer runs
\* ------------------------------------------------------------------------
Reverse(q) == [i \in 1..Len(q) |-> q[Len(q) + 1 - i]]

\* the input files, in command line order: file name and environment
InputFiles ==
    << [File |-> {"x"}, Environment |-> ""],
       [File |-> {"x", "y"}, Environment |-> "linux"] >>

\* the k-th benchmark of the input: its four measures differ from each
\* other and from the measures of every other benchmark
BenchmarkAt(k, name) == Benchmark(name, 10 * k + 1, 10 * k + 2, 10 * k + 3, 10 * k + 4)

\* the benchmarks of file src that have the given name, in input order
RECURSIVE benchmarksOf(_, _, _, _)
benchmarksOf(recs, k, src, name) ==
    IF k > Len(recs) THEN <<>>
    ELSE IF recs[k].src = src /\ recs[k].name = name
    THEN <<BenchmarkAt(k, name)>> \o benchmarksOf(recs, k + 1, src, name)
    ELSE benchmarksOf(recs, k + 1, src, name)

\* the parser.Set of each of the first n input files, for benchmarks read
\* in the order of recs
SetsOf(n, recs) ==
    [src \in 1..n |->
        [File |-> InputFiles[src].File,
         Environment |-> InputFiles[src].Environment,
         Set |-> [name \in {recs[k].name : k \in {j \in 1..Len(recs) : recs[j].src = src}} |->
                     benchmarksOf(recs, 1, src, name)]]]

InputSets ==
    {SetsOf(n, recs) : n \in 0..Len(InputFiles),
                       recs \in SeqsUpTo([src : 1..Len(InputFiles), name : Names], MaxRecords)}

\* rule sets of the organizer runs
RunFunctions == <<Object("f1", <<>>, "x", "y"), Object("f2", <<"F", "2">>, "y", "x")>>

RunVersions == <<Object("v1", <<>>, "y", ""), Object("v2", <<"V", "2">>, "x", "")>>

RunContexts == <<Object("c1", <<>>, "x", ""), Object("c2", <<"C", "2">>, "y", "")>>

RunVersionsContexts ==
    { <<RunVersions, RunContexts>>,
      <<Prefix(RunVersions, 1), Prefix(RunContexts, 1)>>,
      <<<<>>, RunContexts>>,
      <<RunVersions, <<>>>> }

\* two file rules that both match every input file: the nested rules of
\* the first accept the second input file only, those of the second rule
\* name the last defined version and context
RunFiles(versions, contexts) ==
    << File("file1", "x",
            IF Len(contexts) = 0 THEN <<>> ELSE <<Object(contexts[1].ID, <<>>, "y", "")>>,
            IF Len(versions) = 0 THEN <<>> ELSE <<Object(versions[1].ID, <<>>, "y", "")>>),
       File("file2", "x",
            IF Len(contexts) = 0 THEN <<>> ELSE <<Object(contexts[Len(contexts)].ID, <<>>, "x", "")>>,
            IF Len(versions) = 0 THEN <<>> ELSE <<Object(versions[Len(versions)].ID, <<>>, "", "y")>>) >>

SomeMetrics ==
    <<Metric(MetricAllocsPerOp, <<>>, "allocs/op"), Metric(MetricNsPerOp, <<"T">>, "ns/op")>>

EveryMetric == [i \in 1..Len(AllMetricNames) |-> Metric(AllMetricNames[i], <<>>, "")]

\* the versions, contexts and metrics of a run: two of the metrics with any
\* of the versions and contexts, no metric or every metric with some
RunDefinitions ==
    { <<vc[1], vc[2], SomeMetrics>> : vc \in RunVersionsContexts }
    \cup
    { <<vc[1], vc[2], metrics>> :
        vc \in { <<RunVersions, RunContexts>>,
                 <<Prefix(RunVersions, 1), Prefix(RunContexts, 1)>> },
        metrics \in {<<>>, EveryMetric} }

\* no category, one category that includes everything by default, or a
\* category with explicit includes followed by a default one
RunCategories(functions, versions, contexts, metrics) ==
    { <<>>,
      <<Category("cat_1", <<>>, Includes(<<>>, <<>>, <<>>, IDs(metrics)))>>,
      <<Category("cat_1", <<"C">>,
                 Includes(Reverse(IDs(functions)), Prefix(IDs(versions), 1),
                          Reverse(IDs(contexts)), Reverse(IDs(metrics)))),
        Category("cat-2", <<>>, Includes(<<>>, <<>>, <<>>, Prefix(IDs(metrics), 1)))>> }

RunConfigsOf(versions, contexts, metrics) ==
    { Config("run", fe[2], metrics, RunFunctions, contexts, versions, categories,
             IF fe[1] THEN RunFiles(versions, contexts) ELSE <<>>) :
        fe \in {<<FALSE, "">>, <<TRUE, "ci">>},
        categories \in RunCategories(RunFunctions, versions, contexts, metrics) }

RunConfigs == UNION {RunConfigsOf(d[1], d[2], d[3]) : d \in RunDefinitions}

\* ------------------------------------------------------------------------
\* The organizer runs: load a configuration, then Scenarize the input
\* ------------------------------------------------------------------------
Init == \E d \in RunConfigs, s \in InputSets : InitWith(d, s)

Next ==
    \/ Load
    \/ SetStrict
    \/ Scenarize
    \/ NextSet
    \/ ParseEntry
    \/ EndParse
    \/ PopulateCategory
    \/ EndPopulate

Spec == Init /\ [][Next]_vars

TypeOK ==
    pc \in {"flags", "prepared", "prepareFailed", "generate", "generated", "start", "loaded", "loadFailed", "looked", "parsing", "populating", "done", "failed", "parser"}

\* ------------------------------------------------------------------------
\* Vocabulary of the properties
\* ------------------------------------------------------------------------
\* the rule accepts the name: it has a pattern, its positive pattern (if
\* any) matches and its negative pattern (if any) does not
Accepts(o, name) ==
    /\ o.match.set \/ o.notMatch.set
    /\ o.match.set => regexpMatchString(o.match, name)
    /\ o.notMatch.set => ~regexpMatchString(o.notMatch, name)

\* the id of the first rule of the list that accepts the name
FirstAccepted(rules, name) ==
    IF \E i \in 1..Len(rules) : Accepts(rules[i], name)
    THEN LET i == CHOOSE i \in 1..Len(rules) :
                     /\ Accepts(rules[i], name)
                     /\ \A j \in 1..(i - 1) : ~Accepts(rules[j], name)
         IN  [id |-> rules[i].ID, ok |-> TRUE]
    ELSE NoMatch

\* the file rule has a compiled pattern that matches the file
FileAccepts(f, file) == f.match.set /\ regexpMatchString(f.match, file)

\* the benchmarks of the i-th input set
RecordsOfSet(i) == UNION {Range(sets[i].Set[name]) : name \in DOMAIN sets[i].Set}

\* parseBenchmarks has been through the benchmark b of the i-th set
IsProcessed(i, b) ==
    /\ pc \in {"parsing", "populating", "done", "failed"}
    /\ i < setIdx \/ (i = setIdx /\ b.Name \notin pending)

\* the measures of a benchmark identify it: no two benchmarks share one
ValuesOf(b) == {b.NsPerOp, b.AllocsPerOp, b.AllocedBytesPerOp, b.MBPerS}

\* the positions of the observations made from the benchmark b
ObservationsOf(b) == {k \in 1..Len(benchmarks) : benchmarks[k].Value \in ValuesOf(b)}

MatchesSomeFunction(name) == \E i \in 1..Len(cfg.Functions) : Accepts(cfg.Functions[i], name)

\* every series of the scenario, with the category it belongs to
AllSeries ==
    UNION { UNION { {[category |-> scenario.Categories[k], series |-> scenario.Categories[k].Data[d].Series[n]] :
                        n \in 1..Len(scenario.Categories[k].Data[d].Series)} :
                    d \in 1..Len(scenario.Categories[k].Data)} :
            k \in 1..Len(scenario.Categories)}

AllPoints == UNION {Range(e.series.Points) : e \in AllSeries}

Terminal == pc \in {"done", "failed"}

FieldOf(b, metric) ==
    CASE metric = MetricNsPerOp -> b.NsPerOp
      [] metric = MetricAllocsPerOp -> b.AllocsPerOp
      [] metric = MetricBytesPerOp -> b.AllocedBytesPerOp
      [] metric = MetricMBPerS -> b.MBPerS

\* ------------------------------------------------------------------------
\* C4: a record whose name matches no function rule (also when only the
\* negative pattern of a function excludes it) gives no observation and no
\* point of any series of any category; without strict mode no error
\* comes of it.
\* ------------------------------------------------------------------------
C4_UnmatchedRecordDropped ==
    \A i \in 1..Len(sets) : \A b \in RecordsOfSet(i) :
        (pc \notin {"start", "loadFailed"} /\ ~MatchesSomeFunction(b.Name)) =>
            /\ ObservationsOf(b) = {}
            /\ \A p \in AllPoints : p.Value \notin ValuesOf(b)
            /\ ~cfg.IsStrict => err = ""

\* a finished run without strict mode that draws a point and has dropped a
\* record that only a negative pattern excludes
C4_Witness ==
    /\ pc = "done"
    /\ ~cfg.IsStrict
    /\ AllPoints # {}
    /\ \E i \in 1..Len(sets) : \E b \in RecordsOfSet(i) :
          /\ ~MatchesSomeFunction(b.Name)
          /\ \E j \in 1..Len(cfg.Functions) :
                /\ cfg.Functions[j].match.set
                /\ regexpMatchString(cfg.Functions[j].match, b.Name)

\* ------------------------------------------------------------------------
\* C5: in strict mode a run ends with an error and no scenario whenever a
\* record matches no function, or a function-matched record gets no
\* observation because no metric is configured, or the observation set is
\* empty at the end (no input record at all included).
\* ------------------------------------------------------------------------
AllRecords == UNION {RecordsOfSet(i) : i \in 1..Len(sets)}

NoMetricResolves == \A i \in 1..Len(AllMetricNames) : AllMetricNames[i] \notin DOMAIN cfg.metricIndex

C5_StrictFails ==
    (/\ Terminal
     /\ cfg.IsStrict
     /\ \/ \E b \in AllRecords : ~MatchesSomeFunction(b.Name)
        \/ \E b \in AllRecords : MatchesSomeFunction(b.Name) /\ NoMetricResolves
        \/ \A b \in AllRecords : ~MatchesSomeFunction(b.Name) \/ NoMetricResolves)
    => (pc = "failed" /\ err # "" /\ scenario.isNil)

\* a strict run that failed on a function-matched record for which no
\* metric is configured
C5_Witness ==
    /\ pc = "failed"
    /\ cfg.IsStrict
    /\ err = "empty series"
    /\ \A b \in AllRecords : MatchesSomeFunction(b.Name)

\* ------------------------------------------------------------------------
\* C6: a category without any point in any of its (metric, version) series
\* is left out of the scenario (without strict mode) or fails the run (in
\* strict mode), and every category of the scenario has a series with a
\* point.
\* ------------------------------------------------------------------------
HasPoint(category) ==
    \E d \in 1..Len(category.Data) : \E n \in 1..Len(category.Data[d].Series) :
        Len(category.Data[d].Series[n].Points) > 0

\* the observations offer a point to the configured category
OffersPoint(categoryConfig) ==
    \E k \in 1..Len(benchmarks) :
        /\ benchmarks[k].Metric \in Range(categoryConfig.Includes.Metrics)
        /\ benchmarks[k].Version \in Range(categoryConfig.Includes.Versions)
        /\ benchmarks[k].Function \in Range(categoryConfig.Includes.Functions)
        /\ benchmarks[k].Context \in Range(categoryConfig.Includes.Contexts)

C6_EmptyCategoryDropped ==
    /\ pc = "done" =>
          /\ \A k \in 1..Len(scenario.Categories) : HasPoint(scenario.Categories[k])
          /\ \A i \in 1..Len(cfg.Categories) :
                ~OffersPoint(cfg.Categories[i]) =>
                    /\ ~cfg.IsStrict
                    /\ \A k \in 1..Len(scenario.Categories) :
                          scenario.Categories[k].ID # cfg.Categories[i].ID

\* ------------------------------------------------------------------------
\* C7: the points of the series of a category for (metric m, version v)
\* are the observations of key (f, v, c, m) with f and c among the included
\* functions and contexts, in the order of the included functions, then of
\* the included contexts, then of the observations; each point is labelled
\* "f - v - c" and keeps the value of its observation; observations of the
\* same key stay separate points.
\* ------------------------------------------------------------------------
\* <<i, j, k>>: the k-th observation has the key made of the i-th included
\* function, the j-th included context, the version and the metric
Selected(includes, version, metric) ==
    {t \in (1..Len(includes.Functions)) \X (1..Len(includes.Contexts)) \X (1..Len(benchmarks)) :
        /\ benchmarks[t[3]].Function = includes.Functions[t[1]]
        /\ benchmarks[t[3]].Context = includes.Contexts[t[2]]
        /\ benchmarks[t[3]].Version = version
        /\ benchmarks[t[3]].Metric = metric}

Before(t, u) ==
    \/ t[1] < u[1]
    \/ t[1] = u[1] /\ t[2] < u[2]
    \/ t[1] = u[1] /\ t[2] = u[2] /\ t[3] < u[3]

ConfigOf(category) ==
    CHOOSE categoryConfig \in Range(cfg.Categories) : categoryConfig.ID = category.ID

C7_WitnessSameKey ==
    /\ pc = "done"
    /\ \E e \in AllSeries :
          /\ Len(e.series.Points) >= 2
          /\ e.series.Points[1].Function = e.series.Points[2].Function
          /\ e.series.Points[1].Context = e.series.Points[2].Context

\* ------------------------------------------------------------------------
\* C8: the version of a function-matched record is the one FindVersion
\* gives for its name when a version rule accepts the name, else the one
\* FindVersionFromFile gives for its file, else empty; likewise for the
\* context.  The name comes before the file, and a record without version
\* or context is kept.
\* ------------------------------------------------------------------------
\* the file rules, in order, that match the file and have a nested rule
\* accepting it: the nested rule accepted first in the first of them
FromFile(files, nested(_), file) ==
    IF \E i \in 1..Len(files) : FileAccepts(files[i], file) /\ FirstAccepted(nested(files[i]), file).ok
    THEN LET i == CHOOSE i \in 1..Len(files) :
                     /\ FileAccepts(files[i], file) /\ FirstAccepted(nested(files[i]), file).ok
                     /\ \A j \in 1..(i - 1) :
                           ~(FileAccepts(files[j], file) /\ FirstAccepted(nested(files[j]), file).ok)
         IN  FirstAccepted(nested(files[i]), file)
    ELSE NoMatch

NestedVersions(f) == f.Versions

NestedContexts(f) == f.Contexts

ExpectedVersion(name, file) ==
    IF FirstAccepted(cfg.Versions, name).ok THEN FirstAccepted(cfg.Versions, name).id
    ELSE FromFile(cfg.Files, NestedVersions, file).id

ExpectedContext(name, file) ==
    IF FirstAccepted(cfg.Contexts, name).ok THEN FirstAccepted(cfg.Contexts, name).id
    ELSE FromFile(cfg.Files, NestedContexts, file).id

C8_VersionContextResolution ==
    \A i \in 1..Len(sets) : \A b \in RecordsOfSet(i) :
        (IsProcessed(i, b) /\ MatchesSomeFunction(b.Name)) =>
            /\ \A k \in ObservationsOf(b) :
                  /\ benchmarks[k].Version = ExpectedVersion(b.Name, sets[i].File)
                  /\ benchmarks[k].Context = ExpectedContext(b.Name, sets[i].File)
            /\ ~NoMetricResolves => ObservationsOf(b) # {}

\* an observation that takes its version from the name although the file
\* rules give another one, next to an observation without any version
C8_Witness ==
    /\ pc = "done"
    /\ \E i \in 1..Len(sets) : \E b \in RecordsOfSet(i) : \E k \in ObservationsOf(b) :
          /\ FirstAccepted(cfg.Versions, b.Name).ok
          /\ FromFile(cfg.Files, NestedVersions, sets[i].File).ok
          /\ FromFile(cfg.Files, NestedVersions, sets[i].File).id # benchmarks[k].Version
    /\ \E k \in 1..Len(benchmarks) : benchmarks[k].Context = ""

\* ------------------------------------------------------------------------
\* C9: a function-matched record gives exactly one observation for each of
\* the four metric names that the metric index defines and none for the
\* others; the observation has the (function, version, context) of the
\* record, that metric and the value of the field bound to the metric.
\* ------------------------------------------------------------------------
C9_OneObservationPerMetric ==
    \A i \in 1..Len(sets) : \A b \in RecordsOfSet(i) :
        (IsProcessed(i, b) /\ MatchesSomeFunction(b.Name)) =>
            /\ \A k \in ObservationsOf(b) :
                  /\ benchmarks[k].Metric \in DOMAIN cfg.metricIndex
                  /\ benchmarks[k].Metric \in Range(AllMetricNames)
                  /\ benchmarks[k].Value = FieldOf(b, benchmarks[k].Metric)
                  /\ benchmarks[k].Function = FirstAccepted(cfg.Functions, b.Name).id
                  /\ benchmarks[k].Version = ExpectedVersion(b.Name, sets[i].File)
                  /\ benchmarks[k].Context = ExpectedContext(b.Name, sets[i].File)
            /\ \A m \in Range(AllMetricNames) :
                  Cardinality({k \in ObservationsOf(b) : benchmarks[k].Metric = m})
                      = IF m \in DOMAIN cfg.metricIndex THEN 1 ELSE 0

\* a record that gave two observations, for the two configured metrics
C9_Witness ==
    /\ pc = "done"
    /\ Cardinality(DOMAIN cfg.metricIndex) = 2
    /\ \E b \in AllRecords : Cardinality(ObservationsOf(b)) = 2

\* ------------------------------------------------------------------------
\* The lookups: load a configuration, then query the rule store
\* ------------------------------------------------------------------------
Patterns == {""} \cup Tokens

FunctionIDs == <<"f1", "f2", "f3">>

VersionIDs == <<"v1", "v2", "v3">>

ContextIDs == <<"c1", "c2", "c3">>

FileIDs == <<"file1", "file2", "file3">>

\* the lists of up to n <<Match, NotMatch>> pairs
PatternLists(n) == SeqsUpTo(Patterns \X Patterns, n)

\* the rules with the given patterns, named by their position
RulesOf(ids, patterns) ==
    [i \in 1..Len(patterns) |-> Object(ids[i], <<>>, patterns[i][1], patterns[i][2])]

\* rules without pattern, to define ids
BareRules(ids, n) == [i \in 1..n |-> Object(ids[i], <<>>, "", "")]

\* the <<Match, NotMatch>> pairs of the rules nested in a file rule
NestedPatterns == {<<"x", "">>, <<"", "x">>}

\* file rules: a file pattern and nested versions and contexts
FileRuleLists ==
    SeqsUpTo([MatchFile : Patterns, nested : SeqsUpTo(NestedPatterns, MaxNested)], MaxFiles)

FilesOf(rules) ==
    [i \in 1..Len(rules) |->
        File(FileIDs[i], rules[i].MatchFile,
             RulesOf(ContextIDs, rules[i].nested), RulesOf(VersionIDs, rules[i].nested))]

LookupConfigs ==
    { Config("lookup", "", <<>>, RulesOf(FunctionIDs, l), RulesOf(ContextIDs, l),
             RulesOf(VersionIDs, l), <<>>, <<>>) : l \in PatternLists(MaxRules) }
    \cup
    { Config("lookup", "", <<>>, <<>>, BareRules(ContextIDs, MaxNested),
             BareRules(VersionIDs, MaxNested), <<>>, FilesOf(f)) : f \in FileRuleLists }

\* every Object of the rule store
AllObjects ==
    Range(cfg.Functions) \cup Range(cfg.Versions) \cup Range(cfg.Contexts)
    \cup UNION {Range(cfg.Files[i].Versions) \cup Range(cfg.Files[i].Contexts) :
                   i \in 1..Len(cfg.Files)}

\* a run makes one lookup on the loaded rule store
MatchStringCall ==
    /\ pc = "loaded"
    /\ \E o \in AllObjects, name \in Names :
          probe' = [op |-> "MatchString", obj |-> o, name |-> name, res |-> MatchString(o, name)]
    /\ pc' = "looked"
    /\ UNCHANGED <<osArgs, command, parser, lastCall, input, generated, decoded, sets, cfg, loadErr, setIdx, pending, benchmarks, catIdx, scenario, err>>

FindFunctionCall ==
    /\ pc = "loaded"
    /\ \E name \in Names :
          probe' = [NoProbe EXCEPT !.op = "FindFunction", !.name = name,
                                   !.res = FindFunction(cfg, name)]
    /\ pc' = "looked"
    /\ UNCHANGED <<osArgs, command, parser, lastCall, input, generated, decoded, sets, cfg, loadErr, setIdx, pending, benchmarks, catIdx, scenario, err>>

FindVersionCall ==
    /\ pc = "loaded"
    /\ \E name \in Names :
          probe' = [NoProbe EXCEPT !.op = "FindVersion", !.name = name,
                                   !.res = FindVersion(cfg, name)]
    /\ pc' = "looked"
    /\ UNCHANGED <<osArgs, command, parser, lastCall, input, generated, decoded, sets, cfg, loadErr, setIdx, pending, benchmarks, catIdx, scenario, err>>

FindContextCall ==
    /\ pc = "loaded"
    /\ \E name \in Names :
          probe' = [NoProbe EXCEPT !.op = "FindContext", !.name = name,
                                   !.res = FindContext(cfg, name)]
    /\ pc' = "looked"
    /\ UNCHANGED <<osArgs, command, parser, lastCall, input, generated, decoded, sets, cfg, loadErr, setIdx, pending, benchmarks, catIdx, scenario, err>>

FindVersionFromFileCall ==
    /\ pc = "loaded"
    /\ \E file \in Names :
          probe' = [NoProbe EXCEPT !.op = "FindVersionFromFile", !.name = file,
                                   !.res = FindVersionFromFile(cfg, file)]
    /\ pc' = "looked"
    /\ UNCHANGED <<osArgs, command, parser, lastCall, input, generated, decoded, sets, cfg, loadErr, setIdx, pending, benchmarks, catIdx, scenario, err>>

FindContextFromFileCall ==
    /\ pc = "loaded"
    /\ \E file \in Names :
          probe' = [NoProbe EXCEPT !.op = "FindContextFromFile", !.name = file,
                                   !.res = FindContextFromFile(cfg, file)]
    /\ pc' = "looked"
    /\ UNCHANGED <<osArgs, command, parser, lastCall, input, generated, decoded, sets, cfg, loadErr, setIdx, pending, benchmarks, catIdx, scenario, err>>

InitLookup == \E d \in LookupConfigs : InitWith(d, <<>>)

NextLookup ==
    \/ Load
    \/ MatchStringCall
    \/ FindFunctionCall
    \/ FindVersionCall
    \/ FindContextCall
    \/ FindVersionFromFileCall
    \/ FindContextFromFileCall

SpecLookup == InitLookup /\ [][NextLookup]_vars

\* ------------------------------------------------------------------------
\* C1: MatchString(x) returns (rule id, true) if and only if the rule has
\* a positive or a negative pattern, its positive pattern (if it has one)
\* matches x and its negative pattern (if it has one) does not match x;
\* otherwise it returns ("", false).  A rule without pattern never
\* matches; a rule with only a negative pattern matches exactly the names
\* that this pattern does not match.
\* ------------------------------------------------------------------------
C1_MatchString ==
    probe.op = "MatchString" =>
        LET o == probe.obj
            positive == o.match.set /\ regexpMatchString(o.match, probe.name)
            negative == o.notMatch.set /\ regexpMatchString(o.notMatch, probe.name)
        IN  /\ probe.res.ok <=> (/\ o.match.set \/ o.notMatch.set
                                 /\ o.match.set => positive
                                 /\ ~negative)
            /\ probe.res.id = IF probe.res.ok THEN o.ID ELSE ""
            /\ (~o.match.set /\ ~o.notMatch.set) => ~probe.res.ok
            /\ (~o.match.set /\ o.notMatch.set) => (probe.res.ok <=> ~negative)

\* a rule with only a negative pattern has matched a name
C1_Witness ==
    /\ probe.op = "MatchString"
    /\ ~probe.obj.match.set
    /\ probe.obj.notMatch.set
    /\ probe.res.ok
    /\ probe.res.id = probe.obj.ID

\* ------------------------------------------------------------------------
\* C2: FindFunction, FindVersion and FindContext return the id of the
\* first rule, in declaration order, that matches the name, also when a
\* later rule matches too, and ("", false) exactly when no rule of the
\* collection matches.
\* ------------------------------------------------------------------------
ProbedRules ==
    CASE probe.op = "FindFunction" -> cfg.Functions
      [] probe.op = "FindVersion" -> cfg.Versions
      [] probe.op = "FindContext" -> cfg.Contexts
      [] OTHER -> <<>>

C2_FirstMatchWins ==
    probe.op \in {"FindFunction", "FindVersion", "FindContext"} =>
        /\ probe.res.ok =>
              \E i \in 1..Len(ProbedRules) :
                  /\ Accepts(ProbedRules[i], probe.name)
                  /\ \A j \in 1..(i - 1) : ~Accepts(ProbedRules[j], probe.name)
                  /\ probe.res.id = ProbedRules[i].ID
        /\ ~probe.res.ok =>
              /\ probe.res.id = ""
              /\ \A i \in 1..Len(ProbedRules) : ~Accepts(ProbedRules[i], probe.name)

\* two rules match the name and the first one is returned
C2_Witness ==
    /\ probe.op \in {"FindFunction", "FindVersion", "FindContext"}
    /\ Len(ProbedRules) >= 2
    /\ Accepts(ProbedRules[1], probe.name)
    /\ Accepts(ProbedRules[2], probe.name)
    /\ probe.res = [id |-> ProbedRules[1].ID, ok |-> TRUE]

\* ------------------------------------------------------------------------
\* C3: FindVersionFromFile(f) and FindContextFromFile(f) consult only the
\* first File Rule whose file pattern matches f: they return its first
\* matching nested rule, and not-found when none of its nested rules
\* matches f, even if a later File Rule that matches f has one.
\* ------------------------------------------------------------------------
ProbedNested(f) == IF probe.op = "FindVersionFromFile" THEN f.Versions ELSE f.Contexts

MetricIDs == <<MetricNsPerOp, MetricAllocsPerOp, MetricBytesPerOp>>

CategoryIDs == <<"cat1", "cat2", "cat3">>

\* the lists of up to MaxEntries ids taken among the first two of the table:
\* the third id of a table is never defined
IDLists(ids) == SeqsUpTo({ids[1], ids[2]}, MaxEntries)

DefinitionsOf(ids) == [i \in 1..Len(ids) |-> Object(ids[i], <<>>, "x", "")]

\* lists with an entry that has no id, a pattern that does not compile, a
\* title, or an id made of several words
OddDefinitions(ids, words) ==
    { <<Object("", <<>>, "x", "")>>,
      <<Object(ids[1], <<>>, "x", ""), Object("", <<>>, "x", "")>>,
      <<Object(ids[1], <<>>, BadPattern, "")>>,
      <<Object(ids[1], <<>>, "x", ""), Object(ids[2], <<>>, "", BadPattern)>>,
      <<Object(ids[1], <<"T">>, "x", "")>>,
      <<Object(words, <<>>, "x", "")>> }

Definitions(functions, contexts, versions) ==
    [Functions |-> functions, Contexts |-> contexts, Versions |-> versions]

\* functions, contexts and versions: one of the three collections varies,
\* the other two define one id each
LoadDefinitions ==
    { Definitions(l, DefinitionsOf(<<ContextIDs[1]>>), DefinitionsOf(<<VersionIDs[1]>>)) :
        l \in {DefinitionsOf(ids) : ids \in IDLists(FunctionIDs)}
              \cup OddDefinitions(FunctionIDs, "f_1") }
    \cup
    { Definitions(DefinitionsOf(<<FunctionIDs[1]>>), l, DefinitionsOf(<<VersionIDs[1]>>)) :
        l \in {DefinitionsOf(ids) : ids \in IDLists(ContextIDs)}
              \cup OddDefinitions(ContextIDs, "c-1") }
    \cup
    { Definitions(DefinitionsOf(<<FunctionIDs[1]>>), DefinitionsOf(<<ContextIDs[1]>>), l) :
        l \in {DefinitionsOf(ids) : ids \in IDLists(VersionIDs)}
              \cup OddDefinitions(VersionIDs, "v_1") }

LoadMetrics ==
    { [i \in 1..Len(m) |-> Metric(m[i], <<>>, "")] : m \in IDLists(MetricIDs) }
    \cup
    { <<Metric("", <<>>, "")>>,
      <<Metric("bogus", <<>>, "")>>,
      <<Metric(MetricIDs[1], <<>>, ""), Metric("bogus", <<>>, "")>>,
      <<Metric(MetricIDs[1], <<"T">>, "ns/op")>> }

\* a category that includes one metric and, by default, everything else
DefaultCategory(id) == Category(id, <<>>, Includes(<<>>, <<>>, <<>>, <<MetricIDs[1]>>))

\* lists with a category that has no id, no metric, a title, an id made of
\* several words, or explicit includes, some of ids that are never defined
OddCategories ==
    { <<Category("", <<>>, Includes(<<>>, <<>>, <<>>, <<MetricIDs[1]>>))>>,
      <<Category("cat1", <<>>, Includes(<<>>, <<>>, <<>>, <<>>))>>,
      <<Category("cat1", <<"T">>, Includes(<<>>, <<>>, <<>>, <<MetricIDs[1]>>))>>,
      <<Category("cat_1", <<>>, Includes(<<>>, <<>>, <<>>, <<MetricIDs[1]>>))>>,
      <<Category("cat1", <<>>,
                 Includes(<<FunctionIDs[1]>>, <<VersionIDs[1]>>, <<ContextIDs[1]>>,
                          <<MetricIDs[2], MetricIDs[1]>>))>>,
      <<Category("cat1", <<>>,
                 Includes(<<FunctionIDs[2], FunctionIDs[1]>>, <<>>, <<>>, <<MetricIDs[1]>>))>>,
      <<Category("cat1", <<>>,
                 Includes(<<>>, <<VersionIDs[2], VersionIDs[1]>>, <<>>, <<MetricIDs[1]>>))>>,
      <<Category("cat1", <<>>,
                 Includes(<<>>, <<>>, <<ContextIDs[2], ContextIDs[1]>>, <<MetricIDs[1]>>))>>,
      <<Category("cat1", <<>>, Includes(<<FunctionIDs[3]>>, <<>>, <<>>, <<MetricIDs[1]>>))>>,
      <<Category("cat1", <<>>, Includes(<<>>, <<VersionIDs[3]>>, <<>>, <<MetricIDs[1]>>))>>,
      <<Category("cat1", <<>>, Includes(<<>>, <<>>, <<ContextIDs[3]>>, <<MetricIDs[1]>>))>>,
      <<Category("cat1", <<>>, Includes(<<>>, <<>>, <<>>, <<MetricIDs[1], MetricIDs[3]>>))>>,
      <<DefaultCategory("cat1"),
        Category("cat2", <<>>, Includes(<<FunctionIDs[1], FunctionIDs[3]>>, <<>>, <<>>,
                                        <<MetricIDs[1]>>))>> }

LoadCategories ==
    { [i \in 1..Len(c) |-> DefaultCategory(c[i])] : c \in IDLists(CategoryIDs) }
    \cup OddCategories

\* the contexts and versions nested in a file rule: none, defined ones,
\* ids that are never defined, patterns that do not compile
LoadNested ==
    { [Contexts |-> <<>>, Versions |-> <<>>],
      [Contexts |-> <<Object(ContextIDs[1], <<>>, "x", "")>>,
       Versions |-> <<Object(VersionIDs[1], <<>>, "", "y")>>],
      [Contexts |-> <<Object(ContextIDs[3], <<>>, "x", "")>>, Versions |-> <<>>],
      [Contexts |-> <<>>, Versions |-> <<Object(VersionIDs[3], <<>>, "x", "")>>],
      [Contexts |-> <<Object(ContextIDs[1], <<>>, "x", ""), Object(ContextIDs[3], <<>>, "y", "")>>,
       Versions |-> <<>>],
      [Contexts |-> <<Object(ContextIDs[1], <<>>, BadPattern, "")>>, Versions |-> <<>>],
      [Contexts |-> <<>>, Versions |-> <<Object(VersionIDs[1], <<>>, "x", BadPattern)>>] }

LoadFileRules ==
    { File(id, matchFile, n.Contexts, n.Versions) :
        id \in {"", FileIDs[2]}, matchFile \in {"", "x", BadPattern}, n \in LoadNested }

\* no file rule, one file rule, or one that follows a file rule in order or
\* a file rule without file pattern
LoadFiles ==
    { <<>> }
    \cup { <<f>> : f \in LoadFileRules }
    \cup { <<File(FileIDs[1], matchFile, <<>>, <<>>), f>> :
             matchFile \in {"", "x"}, f \in LoadFileRules }

LoadConfigs ==
    { Config("load", "", m, d.Functions, d.Contexts, d.Versions, c, <<>>) :
        d \in LoadDefinitions, m \in LoadMetrics, c \in LoadCategories }
    \cup
    { Config("load", "", <<Metric(MetricIDs[1], <<>>, "")>>,
             DefinitionsOf(<<FunctionIDs[1]>>), DefinitionsOf(<<ContextIDs[1]>>),
             DefinitionsOf(<<VersionIDs[1]>>), <<DefaultCategory("cat1")>>, f) :
        f \in LoadFiles }

InitLoad == \E d \in LoadConfigs : InitWith(d, <<>>)

NextLoad == Load

SpecLoad == InitLoad /\ [][NextLoad]_vars

\* two entries of the list have the same id
HasDuplicate(list) ==
    \E i, j \in 1..Len(list) : i # j /\ list[i].ID = list[j].ID

\* Load fails when a function, context, version or metric id is repeated
DuplicateDefinitionRejected ==
    (/\ pc # "start"
     /\ \/ HasDuplicate(decoded.Functions)
        \/ HasDuplicate(decoded.Contexts)
        \/ HasDuplicate(decoded.Versions)
        \/ HasDuplicate(decoded.Metrics))
    => (pc = "loadFailed" /\ loadErr # "" /\ cfg = NilConfig)

\* ------------------------------------------------------------------------
\* C10: Load fails with an error when one of the five collections
\* (functions, contexts, versions, metrics, categories) holds the same id
\* twice.
\* ------------------------------------------------------------------------
C10_DuplicateIDRejected ==
    (/\ pc # "start"
     /\ \/ HasDuplicate(decoded.Functions)
        \/ HasDuplicate(decoded.Contexts)
        \/ HasDuplicate(decoded.Versions)
        \/ HasDuplicate(decoded.Metrics)
        \/ HasDuplicate(decoded.Categories))
    => (pc = "loadFailed" /\ loadErr # "")

\* the ids a list of definitions declares
Declared(list) == {list[i].ID : i \in 1..Len(list)}

\* Load was called and failed
LoadFailed == pc = "loadFailed" /\ loadErr # ""

\* Load was called and returned a configuration
LoadSucceeded == pc = "loaded" /\ loadErr = ""

\* a file rule of the document nests a context or a version under an id
\* that the document does not define
NestsUndefinedID(f) ==
    \/ \E k \in 1..Len(f.Contexts) : f.Contexts[k].ID \notin Declared(decoded.Contexts)
    \/ \E k \in 1..Len(f.Versions) : f.Versions[k].ID \notin Declared(decoded.Versions)

\* ------------------------------------------------------------------------
\* C11: Load fails with an error whenever a file rule nests a context or a
\* version whose id is not defined among the contexts or the versions,
\* whatever the other fields of the file rule, an absent or empty file
\* pattern included.
\* ------------------------------------------------------------------------
C11_UndefinedNestedIDRejected ==
    (/\ pc # "start"
     /\ \E i \in 1..Len(decoded.Files) : NestsUndefinedID(decoded.Files[i]))
    => LoadFailed

\* the same with a file pattern: the nested ids of a file rule that has a
\* file pattern are validated
NestedIDOfMatchedFileRejected ==
    (/\ pc # "start"
     /\ \E i \in 1..Len(decoded.Files) :
           /\ decoded.Files[i].MatchFile # ""
           /\ NestsUndefinedID(decoded.Files[i]))
    => LoadFailed

\* the category includes an id that the document does not define
IncludesUndefinedID(v) ==
    \/ \E j \in 1..Len(v.Includes.Functions) :
          v.Includes.Functions[j] \notin Declared(decoded.Functions)
    \/ \E j \in 1..Len(v.Includes.Versions) :
          v.Includes.Versions[j] \notin Declared(decoded.Versions)
    \/ \E j \in 1..Len(v.Includes.Contexts) :
          v.Includes.Contexts[j] \notin Declared(decoded.Contexts)
    \/ \E j \in 1..Len(v.Includes.Metrics) :
          v.Includes.Metrics[j] \notin Declared(decoded.Metrics)

\* ------------------------------------------------------------------------
\* C12: Load fails with an error whenever a category includes a function,
\* version, context or metric id that is not defined, and whenever a
\* category includes no metric at all.
\* ------------------------------------------------------------------------
C12_CategoryReferencesRejected ==
    (/\ pc # "start"
     /\ \E i \in 1..Len(decoded.Categories) :
           \/ IncludesUndefinedID(decoded.Categories[i])
           \/ Len(decoded.Categories[i].Includes.Metrics) = 0)
    => (LoadFailed /\ cfg = NilConfig)

\* Load has rejected a category that includes a version that is not
\* defined
C12_Witness ==
    /\ LoadFailed
    /\ loadErr = "version ID not found"
    /\ \E i \in 1..Len(decoded.Categories) : IncludesUndefinedID(decoded.Categories[i])

\* Load has rejected a category that includes no metric
C12_WitnessNoMetric ==
    /\ LoadFailed
    /\ loadErr = "at least 1 metric"

\* the ids of a list of definitions, in the order of the document
DeclarationOrder(list) == [k \in 1..Len(list) |-> list[k].ID]

\* what a category includes of one kind: what it lists, or else everything
\* the document declares
ExpectedIncludes(listed, declared) ==
    IF listed = <<>> THEN DeclarationOrder(declared) ELSE listed

\* ------------------------------------------------------------------------
\* C13: after a successful Load, a category that lists no function (no
\* version, no context) includes every function (version, context) id
\* the document defines, in declaration order; a category that lists ids
\* of a kind keeps exactly those ids in the order listed.
\* ------------------------------------------------------------------------
C13_DefaultIncludes ==
    LoadSucceeded =>
        /\ Len(cfg.Categories) = Len(decoded.Categories)
        /\ \A i \in 1..Len(decoded.Categories) :
              LET listed == decoded.Categories[i].Includes
                  loaded == cfg.Categories[i].Includes
              IN  /\ loaded.Functions = ExpectedIncludes(listed.Functions, decoded.Functions)
                  /\ loaded.Versions = ExpectedIncludes(listed.Versions, decoded.Versions)
                  /\ loaded.Contexts = ExpectedIncludes(listed.Contexts, decoded.Contexts)

\* a loaded category lists two versions in the reverse of their
\* declaration order and nothing of the other kinds
C13_Witness ==
    /\ LoadSucceeded
    /\ Len(decoded.Versions) = 2
    /\ \E i \in 1..Len(decoded.Categories) :
          /\ decoded.Categories[i].Includes.Versions
                = <<decoded.Versions[2].ID, decoded.Versions[1].ID>>
          /\ decoded.Categories[i].Includes.Functions = <<>>
          /\ decoded.Versions[1].ID # decoded.Versions[2].ID

\* a loaded category lists no function in a document that declares two
C13_WitnessDefault ==
    /\ LoadSucceeded
    /\ Len(decoded.Functions) = 2
    /\ decoded.Functions[1].ID = FunctionIDs[2]
    /\ \E i \in 1..Len(decoded.Categories) :
          decoded.Categories[i].Includes.Functions = <<>>

\* the document before any validation: the four indices are empty
Unindexed ==
    [decoded EXCEPT !.functionIndex = EmptyIndex, !.contextIndex = EmptyIndex,
                    !.versionIndex = EmptyIndex, !.metricIndex = EmptyIndex]

\* the document with the four indices as the first four validations build
\* them
Indexed ==
    validateMetrics(validateVersions(validateContexts(validateFunctions(Unindexed).c).c).c).c

\* the validation steps of load, each taken on its own
FunctionsFail == validateFunctions(Unindexed).err # ""

ContextsFail == validateContexts(Unindexed).err # ""

VersionsFail == validateVersions(Unindexed).err # ""

MetricsFail == validateMetrics(Unindexed).err # ""

CategoriesFail == validateCategories(Indexed).err # ""

RegexpsFail == validateRegexps(Indexed).err # ""

SomeValidationFails ==
    \/ FunctionsFail
    \/ ContextsFail
    \/ VersionsFail
    \/ MetricsFail
    \/ CategoriesFail
    \/ RegexpsFail

\* ------------------------------------------------------------------------
\* C14: Load is fail-fast: when any validation step fails (functions,
\* contexts, versions, metrics, categories, patterns and file rules), Load
\* returns an error and no configuration at all; when Load returns a
\* configuration, every validation step has passed.
\* ------------------------------------------------------------------------
C14_FailFast ==
    pc # "start" =>
        /\ SomeValidationFails => (LoadFailed /\ cfg = NilConfig)
        /\ cfg # NilConfig => (LoadSucceeded /\ ~SomeValidationFails)

\* Load has failed at its last step only: the indices and the categories
\* were validated, a pattern does not compile
C14_Witness ==
    /\ LoadFailed
    /\ cfg = NilConfig
    /\ RegexpsFail
    /\ ~FunctionsFail /\ ~ContextsFail /\ ~VersionsFail /\ ~MetricsFail /\ ~CategoriesFail

\* Load has returned a configuration for a document with a file rule
C14_WitnessLoaded ==
    /\ LoadSucceeded
    /\ cfg # NilConfig
    /\ Len(decoded.Files) > 0

\* an entry of the list has an empty id
HasEmptyID(list) == \E i \in 1..Len(list) : list[i].ID = ""

\* the four metric names
FixedMetricNames == {"nsPerOp", "allocsPerOp", "bytesPerOp", "MBytesPerS"}

\* ------------------------------------------------------------------------
\* C15: Load fails with an error whenever a function, context, version,
\* metric, category or file rule entry has an empty id, and whenever a
\* metric id is not one of nsPerOp, allocsPerOp, bytesPerOp, MBytesPerS.
\* ------------------------------------------------------------------------
C15_EmptyOrUnknownIDRejected ==
    (/\ pc # "start"
     /\ \/ HasEmptyID(decoded.Functions)
        \/ HasEmptyID(decoded.Contexts)
        \/ HasEmptyID(decoded.Versions)
        \/ HasEmptyID(decoded.Metrics)
        \/ HasEmptyID(decoded.Categories)
        \/ HasEmptyID(decoded.Files)
        \/ \E i \in 1..Len(decoded.Metrics) : decoded.Metrics[i].ID \notin FixedMetricNames)
    => LoadFailed

\* Load has rejected a metric under a name that is not one of the four, in
\* a document whose functions, contexts and versions are valid
C15_Witness ==
    /\ LoadFailed
    /\ \E i \in 1..Len(decoded.Metrics) :
          decoded.Metrics[i].ID \notin FixedMetricNames \cup {""}
    /\ ~FunctionsFail /\ ~ContextsFail /\ ~VersionsFail

\* Load has rejected a file rule that has neither an id nor a file pattern
C15_WitnessFileRule ==
    /\ LoadFailed
    /\ loadErr = "missing ID for file"
    /\ \E i \in 1..Len(decoded.Files) :
          decoded.Files[i].ID = "" /\ decoded.Files[i].MatchFile = ""

\* one of the two patterns of the rule is not a valid regular expression
HasInvalidPattern(o) ==
    \/ o.Match # "" /\ regexpCompile(o.Match).err # ""
    \/ o.NotMatch # "" /\ regexpCompile(o.NotMatch).err # ""

SomeInvalidPattern(list) == \E i \in 1..Len(list) : HasInvalidPattern(list[i])

\* ------------------------------------------------------------------------
\* C16: Load fails with an error whenever a pattern of the document is not
\* a valid regular expression: the positive or negative pattern of a
\* function, context or version, the file pattern of a file rule, or the
\* positive or negative pattern of a context or version nested under any
\* file rule.
\* ------------------------------------------------------------------------
C16_InvalidPatternRejected ==
    (/\ pc # "start"
     /\ \/ SomeInvalidPattern(decoded.Functions)
        \/ SomeInvalidPattern(decoded.Contexts)
        \/ SomeInvalidPattern(decoded.Versions)
        \/ \E i \in 1..Len(decoded.Files) :
              \/ /\ decoded.Files[i].MatchFile # ""
                 /\ regexpCompile(decoded.Files[i].MatchFile).err # ""
              \/ SomeInvalidPattern(decoded.Files[i].Contexts)
              \/ SomeInvalidPattern(decoded.Files[i].Versions))
    => LoadFailed

\* the same where the nested patterns are those of the file rules that
\* have a file pattern
InvalidPatternOfMatchedFileRejected ==
    (/\ pc # "start"
     /\ \/ SomeInvalidPattern(decoded.Functions)
        \/ SomeInvalidPattern(decoded.Contexts)
        \/ SomeInvalidPattern(decoded.Versions)
        \/ \E i \in 1..Len(decoded.Files) :
              /\ decoded.Files[i].MatchFile # ""
              /\ \/ regexpCompile(decoded.Files[i].MatchFile).err # ""
                 \/ SomeInvalidPattern(decoded.Files[i].Contexts)
                 \/ SomeInvalidPattern(decoded.Files[i].Versions))
    => LoadFailed

\* the title is the titleized form of the id: as long as the id, a space
\* for every '_' and '-', a capital at the start of every word, the other
\* characters as they are
IsTitleOf(title, id) ==
    /\ Len(title) = Len(Chars(id))
    /\ \A i \in 1..Len(title) :
          title[i] = IF Chars(id)[i] \in {"_", "-"} THEN " "
                     ELSE IF i = 1 \/ Chars(id)[i - 1] \in {"_", "-"}
                          THEN Upper(Chars(id)[i])
                          ELSE Chars(id)[i]

\* the title the loaded entry has for the entry of the document
HasExpectedTitle(loaded, entry) ==
    /\ loaded.Title # <<>>
    /\ IF entry.Title # <<>> THEN loaded.Title = entry.Title
                             ELSE IsTitleOf(loaded.Title, entry.ID)

\* ------------------------------------------------------------------------
\* C17: after a successful Load, every function, context, version and
\* metric obtained by id (GetFunction, GetContext, GetVersion, GetMetric)
\* and every category has a non-empty title: the title of the document
\* when it has one, otherwise the titleized form of the id ('_' and '-'
\* replaced by spaces, each word capitalised).
\* ------------------------------------------------------------------------
C17_Titles ==
    LoadSucceeded =>
        /\ \A i \in 1..Len(decoded.Functions) :
              LET got == GetFunction(cfg, decoded.Functions[i].ID)
              IN  got.ok /\ HasExpectedTitle(got.v, decoded.Functions[i])
        /\ \A i \in 1..Len(decoded.Contexts) :
              LET got == GetContext(cfg, decoded.Contexts[i].ID)
              IN  got.ok /\ HasExpectedTitle(got.v, decoded.Contexts[i])
        /\ \A i \in 1..Len(decoded.Versions) :
              LET got == GetVersion(cfg, decoded.Versions[i].ID)
              IN  got.ok /\ HasExpectedTitle(got.v, decoded.Versions[i])
        /\ \A i \in 1..Len(decoded.Metrics) :
              LET got == GetMetric(cfg, decoded.Metrics[i].ID)
              IN  got.ok /\ HasExpectedTitle(got.v, decoded.Metrics[i])
        /\ Len(cfg.Categories) = Len(decoded.Categories)
        /\ \A i \in 1..Len(decoded.Categories) :
              HasExpectedTitle(cfg.Categories[i], decoded.Categories[i])

\* a loaded document has a context without title under an id of two
\* words, and a category with a title
C17_Witness ==
    /\ LoadSucceeded
    /\ \E i \in 1..Len(decoded.Contexts) :
          /\ decoded.Contexts[i].Title = <<>>
          /\ decoded.Contexts[i].ID = "c-1"
          /\ GetContext(cfg, "c-1").v.Title = <<"C", " ", "1">>
    /\ \E i \in 1..Len(decoded.Categories) : decoded.Categories[i].Title # <<>>

\* a loaded document has a metric with a title and a category without
C17_WitnessMetric ==
    /\ LoadSucceeded
    /\ \E i \in 1..Len(decoded.Metrics) : decoded.Metrics[i].Title # <<>>
    /\ \E i \in 1..Len(decoded.Categories) :
          decoded.Categories[i].Title = <<>> /\ decoded.Categories[i].ID = "cat_1"

\* ------------------------------------------------------------------------
\* Generating a configuration, writing it, loading it back
\* ------------------------------------------------------------------------
BenchNames ==
    {"BenchmarkA", "BenchmarkA-8", "Benchmark_a", "BenchmarkA/b", "BenchmarkA-b", "Benchmark",
     "("}

GenerateInputs ==
    [Functions : SeqsUpTo(BenchNames, MaxEntries),
     Metrics : SeqsUpTo({MetricNsPerOp, MetricAllocsPerOp, "bogus"}, MaxEntries)]

\* Command.generateConfig: config.Generate on the names and metrics reported
GenerateCall ==
    /\ pc = "generate"
    /\ generated' = Generate(input)
    /\ pc' = "generated"
    /\ UNCHANGED <<osArgs, command, parser, lastCall, input, decoded, sets, cfg, loadErr, setIdx, pending,
                   benchmarks, catIdx,
                   scenario, err, probe>>

\* the generated Config is written with EncodeYAML, and config.Load
\* decodes the file over the defaults
EncodeYAMLCall ==
    /\ pc = "generated"
    /\ decoded' = Decode(EncodeYAML(generated), decoded)
    /\ pc' = "start"
    /\ UNCHANGED <<osArgs, command, parser, lastCall, input, generated, sets, cfg, loadErr, setIdx, pending,
                   benchmarks, catIdx,
                   scenario, err, probe>>

InitGenerate ==
    /\ osArgs = {}
    /\ command = NewCommand
    /\ parser = NewParser
    /\ lastCall = NoCall
    /\ input \in GenerateInputs
    /\ generated = NilConfig
    /\ decoded = loadDefaults
    /\ sets = <<>>
    /\ cfg = NilConfig
    /\ loadErr = ""
    /\ pc = "generate"
    /\ setIdx = 0
    /\ pending = {}
    /\ benchmarks = <<>>
    /\ catIdx = 0
    /\ scenario = NilScenario
    /\ err = ""
    /\ probe = NoProbe

\* the literal that a quoted pattern stands for: the character after a
\* backslash is taken as it is
RECURSIVE unquoted(_)
unquoted(chars) ==
    IF chars = <<>> THEN <<>>
    ELSE IF Head(chars) = "\\" /\ Len(chars) > 1
    THEN <<chars[2]>> \o unquoted(Tail(Tail(chars)))
    ELSE <<Head(chars)>> \o unquoted(Tail(chars))

\* the characters of the literal are found in a row among those of the name
Contains(name, literal) ==
    \E i \in 0..(Len(name) - Len(literal)) : SubSeq(name, i + 1, i + Len(literal)) = literal

\* a record name as the matchers see it: the patterns that match it, a
\* pattern without operator matching the names that contain its literal
Matched(name) ==
    {p \in Strings \ {BadPattern} : Contains(Chars(name), unquoted(Chars(p)))}

\* FindFunction on the loaded rules, for one of the names that Generate
\* was given
FindGeneratedCall ==
    /\ pc = "loaded"
    /\ \E k \in 1..Len(input.Functions) :
          probe' = [NoProbe EXCEPT !.op = "FindFunction", !.name = input.Functions[k],
                                   !.res = FindFunction(cfg, Matched(input.Functions[k]))]
    /\ pc' = "looked"
    /\ UNCHANGED <<osArgs, command, parser, lastCall, input, generated, decoded, sets, cfg, loadErr, setIdx, pending, benchmarks, catIdx, scenario, err>>

NextGenerate ==
    \/ GenerateCall
    \/ EncodeYAMLCall
    \/ Load
    \/ FindGeneratedCall

SpecGenerate == InitGenerate /\ [][NextGenerate]_vars

\* Generate has returned
Generated == pc # "generate"

\* the normalized ids of the names supplied, name by name
Normalized == [i \in 1..Len(input.Functions) |-> benchNameToID(input.Functions[i])]

\* the position of the first name supplied that normalizes to the id
FirstOccurrence(id) ==
    CHOOSE i \in 1..Len(Normalized) :
        Normalized[i] = id /\ \A j \in 1..(i - 1) : Normalized[j] # id

C19_WitnessTwo ==
    /\ Generated
    /\ Len(input.Functions) = 2
    /\ Len(generated.Functions) = 2
    /\ generated.Functions[1].ID = "a-b"

\* Load of the written configuration has returned
LoadedBack == pc \in {"loaded", "loadFailed"}

\* ------------------------------------------------------------------------
\* C18: for every list of record names and every list of metric ids,
\* Generate followed by EncodeYAML and Load of what was written succeeds,
\* and the loaded configuration has as many functions as there are distinct
\* normalized ids among the names.
\* ------------------------------------------------------------------------
C18_RoundTrip ==
    LoadedBack =>
        /\ LoadSucceeded
        /\ Len(cfg.Functions) = Cardinality(Range(Normalized))

\* the metric ids supplied are valid metric names, all different, and there
\* is one at least; no name supplied has an empty normalized id
LoadableInput ==
    /\ Len(input.Metrics) > 0
    /\ \A i \in 1..Len(input.Metrics) :
          /\ input.Metrics[i] \in FixedMetricNames
          /\ \A j \in 1..Len(input.Metrics) : (i # j) => input.Metrics[i] # input.Metrics[j]
    /\ \A i \in 1..Len(Normalized) : Normalized[i] # ""

\* the round trip succeeds exactly on these inputs, and then the loaded
\* configuration is the generated one, validated
RoundTripOfLoadableInput ==
    LoadedBack =>
        /\ LoadSucceeded <=> LoadableInput
        /\ LoadSucceeded =>
              /\ Len(cfg.Functions) = Cardinality(Range(Normalized))
              /\ Len(cfg.Functions) = Len(generated.Functions)
              /\ \A k \in 1..Len(cfg.Functions) :
                    /\ cfg.Functions[k].ID = generated.Functions[k].ID
                    /\ cfg.Functions[k].Match = generated.Functions[k].Match
                    /\ cfg.Functions[k].match.set
              /\ cfg.Metrics = generated.Metrics
              /\ Len(cfg.Categories) = 1

\* ------------------------------------------------------------------------
\* Runs in which two record names are classified alike
\* ------------------------------------------------------------------------
\* one function, one version and one context that accept every name with x
OrderConfigs ==
    { Config("order", "", metrics, <<Object("f1", <<>>, "x", "")>>,
             <<Object("c1", <<>>, "x", "")>>, <<Object("v1", <<>>, "x", "")>>,
             <<Category("cat1", <<>>, Includes(<<>>, <<>>, <<>>, IDs(metrics)))>>, <<>>) :
        metrics \in {SomeMetrics, Prefix(SomeMetrics, 1)} }

InitOrder == \E d \in OrderConfigs, s \in InputSets : InitWith(d, s)

SpecOrder == InitOrder /\ [][Next]_vars

\* the elements of a set one after the other, in an order that depends on
\* the set only
RECURSIVE Enumerated(_)
Enumerated(S) ==
    IF S = {} THEN <<>>
    ELSE <<CHOOSE x \in S : TRUE>> \o Enumerated(S \ {CHOOSE x \in S : TRUE})

\* parseBenchmarks on one parser.Set, the entries of the map taken in the
\* given order
RECURSIVE parsedInOrder(_, _, _, _, _)
parsedInOrder(c, set, order, i, r) ==
    IF r.err # "" \/ i > Len(order) THEN r
    ELSE parsedInOrder(c, set, order, i + 1,
                       parseEntry(c, set.Set[order[i]], 1, set.File, set.Environment,
                                  r.benchmarks))

\* parseBenchmarks on all the sets, every map taken in its fixed order
RECURSIVE parsedSets(_, _, _, _)
parsedSets(c, all, i, r) ==
    IF r.err # "" \/ i > Len(all) THEN r
    ELSE parsedSets(c, all, i + 1,
                    parsedInOrder(c, all[i], Enumerated(DOMAIN all[i].Set), 1, r))

\* populateCategories on the benchmarks parsed
RECURSIVE populated(_, _, _, _)
populatedNext(c, set, i, made, r) ==
    IF r.err # "" THEN [failed |-> TRUE, scenario |-> NilScenario]
    ELSE populated(c, set, i + 1,
                   IF r.keep THEN [made EXCEPT !.Categories = Append(@, r.category)] ELSE made)

populated(c, set, i, made) ==
    IF i > Len(c.Categories) THEN [failed |-> FALSE, scenario |-> made]
    ELSE populatedNext(c, set, i, made, populateCategory(c, set, c.Categories[i]))

\* Scenarize, from what parseBenchmarks returns
scenarized(c, r) ==
    IF r.err # "" \/ (Len(r.benchmarks) = 0 /\ c.IsStrict)
    THEN [failed |-> TRUE, scenario |-> NilScenario]
    ELSE populated(c, r.benchmarks, 1, [isNil |-> FALSE, Name |-> c.Name, Categories |-> <<>>])

\* the outcome of the run of Scenarize that takes every map in its fixed
\* order, on the same configuration and the same sets
ReferenceRun == scenarized(cfg, parsedSets(cfg, sets, 1, [err |-> "", benchmarks |-> <<>>]))

SameOutcome(o) ==
    /\ (pc = "failed") = o.failed
    /\ scenario = o.scenario

\* ------------------------------------------------------------------------
\* C20: Scenarize is deterministic: for the same configuration and the
\* same input sets, any two runs return the same outcome (error or not)
\* and identical scenarios, the order of the categories, of the (metric,
\* version) data entries and of the points of every series included.
\* ------------------------------------------------------------------------
C20_Deterministic ==
    pc \in {"done", "failed"} => SameOutcome(ReferenceRun)

\* two runs agree on the error, and on the scenario but for the order of
\* the points inside a series
SamePoints(a, b) ==
    /\ Len(a) = Len(b)
    /\ \A p \in Range(a) :
          Cardinality({i \in 1..Len(a) : a[i] = p}) = Cardinality({i \in 1..Len(b) : b[i] = p})

SameButPointOrder(o) ==
    /\ (pc = "failed") = o.failed
    /\ scenario.isNil = o.scenario.isNil
    /\ Len(scenario.Categories) = Len(o.scenario.Categories)
    /\ \A i \in 1..Len(scenario.Categories) :
          /\ scenario.Categories[i].ID = o.scenario.Categories[i].ID
          /\ Len(scenario.Categories[i].Data) = Len(o.scenario.Categories[i].Data)
          /\ \A k \in 1..Len(scenario.Categories[i].Data) :
                /\ scenario.Categories[i].Data[k].Metric = o.scenario.Categories[i].Data[k].Metric
                /\ scenario.Categories[i].Data[k].Version = o.scenario.Categories[i].Data[k].Version
                /\ SamePoints(scenario.Categories[i].Data[k].Series[1].Points,
                              o.scenario.Categories[i].Data[k].Series[1].Points)

DeterministicButPointOrder ==
    pc \in {"done", "failed"} => SameButPointOrder(ReferenceRun)

\* Scenarize has been called
Scenarizing == pc \in {"parsing", "populating", "done", "failed"}

\* ------------------------------------------------------------------------
\* C21: in non-strict mode Scenarize never fails: for every loaded
\* configuration and every sequence of input sets (none, or records that
\* match nothing, included) it returns a non-nil scenario and no error.
\* ------------------------------------------------------------------------
C21_NonStrictNeverFails ==
    (Scenarizing /\ ~cfg.IsStrict) =>
        /\ pc # "failed"
        /\ err = ""
        /\ (pc = "done") => ~scenario.isNil

\* a non-strict run has returned its scenario although a record of the
\* input matches no function
C21_Witness ==
    /\ pc = "done"
    /\ ~cfg.IsStrict
    /\ ~scenario.isNil
    /\ \E i \in 1..Len(sets) : \E name \in DOMAIN sets[i].Set :
          \A k \in 1..Len(cfg.Functions) : ~Accepts(cfg.Functions[k], name)

\* a non-strict run has returned its scenario for no input set at all
C21_WitnessNoSet ==
    /\ pc = "done"
    /\ ~cfg.IsStrict
    /\ ~scenario.isNil
    /\ sets = <<>>

\* ------------------------------------------------------------------------
\* Runs of the command: flags, Load, setConfig
\* ------------------------------------------------------------------------
CommandLines ==
    SUBSET {<<"-json", "">>, <<"-png", "">>, <<"-strict", "">>, <<"-r", "">>, <<"-e", "ci">>,
            <<"-o", "out.txt">>}

\* main: the flags of the command line are parsed
ParseCall ==
    /\ pc = "flags"
    /\ command' = Parse(command, osArgs)
    /\ pc' = "start"
    /\ UNCHANGED <<osArgs, parser, lastCall, input, generated, decoded, sets, cfg, loadErr, setIdx, pending,
                   benchmarks, catIdx, scenario, err, probe>>

Prepared(r) ==
    /\ cfg' = r.cfg
    /\ err' = r.err
    /\ pc' = IF r.err = "" THEN "prepared" ELSE "prepareFailed"

\* prepareConfig: setConfig on the configuration Load has returned
SetConfigCall ==
    /\ pc = "loaded"
    /\ \E tempOK \in BOOLEAN : Prepared(setConfig(command, cfg, tempOK))
    /\ UNCHANGED <<osArgs, command, parser, lastCall, input, generated, decoded, sets, loadErr, setIdx, pending,
                   benchmarks, catIdx, scenario, probe>>

InitCommand ==
    /\ osArgs \in CommandLines
    /\ command = NewCommand
    /\ parser = NewParser
    /\ lastCall = NoCall
    /\ input = NoInput
    /\ generated = NilConfig
    /\ decoded \in OrderConfigs
    /\ sets = <<>>
    /\ cfg = NilConfig
    /\ loadErr = ""
    /\ pc = "flags"
    /\ setIdx = 0
    /\ pending = {}
    /\ benchmarks = <<>>
    /\ catIdx = 0
    /\ scenario = NilScenario
    /\ err = ""
    /\ probe = NoProbe

NextCommand ==
    \/ ParseCall
    \/ Load
    \/ SetConfigCall

SpecCommand == InitCommand /\ [][NextCommand]_vars

\* the flag was given on the command line
Given(flag) == \E a \in osArgs : a[1] = flag

\* ------------------------------------------------------------------------
\* C22: giving the -strict flag enables strict mode: after flag parsing
\* and setConfig, the configuration handed to the organizer has IsStrict
\* true exactly when -strict was given, and -strict does not change
\* whether PNG output is requested.
\* ------------------------------------------------------------------------
C22_StrictFlag ==
    pc = "prepared" =>
        /\ cfg.IsStrict <=> Given("-strict")
        /\ command.Png <=> Given("-png")
        /\ (cfg.Outputs.PngFile # "") <=> (Given("-png") /\ Given("-o"))

\* what the flags do: strict mode stays off whatever the flags, and PNG
\* output is requested by -png and by -strict alike
StrictFlagRequestsPng ==
    pc = "prepared" =>
        /\ ~cfg.IsStrict
        /\ command.Png <=> (Given("-png") \/ Given("-strict"))
        /\ (cfg.Outputs.PngFile # "") <=> ((Given("-png") \/ Given("-strict")) /\ Given("-o"))

\* the rule store of a configuration: the rule collections with their
\* compiled patterns, the categories with their include lists, the indices
RuleStore(c) ==
    [Metrics |-> c.Metrics, Functions |-> c.Functions, Contexts |-> c.Contexts,
     Versions |-> c.Versions, Categories |-> c.Categories, Files |-> c.Files,
     functionIndex |-> c.functionIndex, contextIndex |-> c.contextIndex,
     versionIndex |-> c.versionIndex, metricIndex |-> c.metricIndex]

\* ------------------------------------------------------------------------
\* C23: the rule store is read-only once loaded: Scenarize, with the
\* lookups it makes, leaves the rule collections, the compiled patterns,
\* the include lists of the categories and the indices unchanged, for
\* every input.
\* ------------------------------------------------------------------------
C23_RuleStoreReadOnly ==
    [][pc # "start" => RuleStore(cfg') = RuleStore(cfg)]_vars

\* a run has classified records and assembled a category from a rule
\* store that has file rules
C23_Witness ==
    /\ pc = "done"
    /\ Len(cfg.Files) > 0
    /\ Len(benchmarks) > 0
    /\ Len(scenario.Categories) > 0
    /\ RuleStore(cfg) = RuleStore(load(decoded).cfg)

\* the lookups leave the rule store as Load returned it
LookupsReadOnly ==
    pc = "looked" => RuleStore(cfg) = RuleStore(load(decoded).cfg)

\* the category includes a version at least
IncludesVersion(category) == Len(category.Includes.Versions) > 0

\* the data of the scenario category are those of the configured one: one
\* entry per (metric, version), the metrics outside, each with one series
\* keyed and titled by the version id
HasDataOf(made, category) ==
    LET metrics == category.Includes.Metrics
        versions == category.Includes.Versions
    IN  /\ made.ID = category.ID
        /\ Len(made.Data) = Len(metrics) * Len(versions)
        /\ \A m \in 1..Len(metrics) : \A v \in 1..Len(versions) :
              LET data == made.Data[(m - 1) * Len(versions) + v]
              IN  /\ data.Metric.ID = metrics[m]
                  /\ data.Version.ID = versions[v]
                  /\ Len(data.Series) = 1
                  /\ data.Series[1].Title = versions[v]
                  /\ data.Series[1].Version = versions[v]
                  /\ data.Series[1].Metric = metrics[m]

C24_WitnessFour ==
    /\ pc = "done"
    /\ Len(scenario.Categories) = 1
    /\ Len(scenario.Categories[1].Data) = 4
    /\ Len(cfg.Categories[1].Includes.Metrics) = 2

\* e is the first non-empty environment of the observations, or empty
\* when there is none
IsFirstEnvironment(e, observations) ==
    \/ /\ e = ""
       /\ \A i \in 1..Len(observations) : observations[i].Environment = ""
    \/ \E i \in 1..Len(observations) :
          /\ observations[i].Environment = e
          /\ e # ""
          /\ \A j \in 1..(i - 1) : observations[j].Environment = ""

\* e is the environment that the run-level one, or else the observations,
\* give
HasPrecedence(e, runLevel, observations) ==
    IF runLevel # "" THEN e = runLevel ELSE IsFirstEnvironment(e, observations)

\* ------------------------------------------------------------------------
\* C25: the environment of every observation emitted is the run-level
\* environment of the configuration when that is not empty, otherwise the
\* environment of the input group of the record; and every category kept
\* in the scenario has as environment the run-level environment when not
\* empty, otherwise the first non-empty environment among the
\* observations, in the order of their emission.
\* ------------------------------------------------------------------------
C25_EnvironmentPrecedence ==
    [][/\ \A i \in (Len(benchmarks) + 1)..Len(benchmarks') :
             benchmarks'[i].Environment =
                 (IF cfg.Environment # "" THEN cfg.Environment
                  ELSE sets[setIdx].Environment)
       /\ (pc' = "done") =>
             \A k \in 1..Len(scenario'.Categories) :
                 HasPrecedence(scenario'.Categories[k].Environment,
                               cfg'.Environment, benchmarks')]_vars

\* a category gets the environment of the second input group: the
\* observations of the first group have none and there is no run-level
\* environment
C25_Witness ==
    /\ pc = "done"
    /\ cfg.Environment = ""
    /\ Len(benchmarks) > 1
    /\ benchmarks[1].Environment = ""
    /\ \E i \in 1..Len(benchmarks) : benchmarks[i].Environment = "linux"
    /\ Len(scenario.Categories) > 0
    /\ scenario.Categories[1].Environment = "linux"

\* the run-level environment wins over the environment of the input
\* group, for the observations and for the category
C25_WitnessRunLevel ==
    /\ pc = "done"
    /\ cfg.Environment = "ci"
    /\ Len(sets) = 2
    /\ \E i \in 1..Len(benchmarks) : benchmarks[i].Environment = "ci"
    /\ \E name \in DOMAIN sets[2].Set : TRUE
    /\ Len(scenario.Categories) > 0
    /\ scenario.Categories[1].Environment = "ci"

\* ------------------------------------------------------------------------
\* The benchmark parser: ParseFiles accumulates the sets of its files
\* ------------------------------------------------------------------------
\* the names given to ParseFiles
FileNames == SUBSET Tokens

\* the files os.Open does not find
MissingFiles == {{"y"}}

\* the files that are opened, and that ParseInput fails to read
UnreadableFiles == {{}}

\* what the files that can be read hold: the input files, one benchmark in
\* each
OnDisk ==
    SetsOf(Len(InputFiles), <<[src |-> 1, name |-> {"x"}], [src |-> 2, name |-> {"y"}]>>)

\* os.Open
Open(file) == IF file \in MissingFiles THEN "no such file" ELSE ""

\* ParseInput on the reader of an opened file: the set, not yet tagged
\* with its file
ParseInput(file) ==
    IF file \in UnreadableFiles
    THEN [set |-> [Environment |-> "", Set |-> << >>], err |-> "reading input"]
    ELSE LET held == CHOOSE src \in 1..Len(OnDisk) : OnDisk[src].File = file
         IN  [set |-> [Environment |-> OnDisk[held].Environment, Set |-> OnDisk[held].Set],
              err |-> ""]

\* a ParseFiles that goes on with the next file when one fails
RECURSIVE parseFilesSkipping(_, _, _)
parseFilesSkipping(p, files, i) ==
    IF i > Len(files) THEN [parser |-> p, err |-> ""]
    ELSE IF Open(files[i]) # "" \/ ParseInput(files[i]).err # ""
    THEN [parser |-> parseFilesSkipping(p, files, i + 1).parser, err |-> "input file"]
    ELSE parseFilesSkipping(
             [p EXCEPT !.sets = Append(@, [File |-> files[i],
                                           Environment |-> ParseInput(files[i]).set.Environment,
                                           Set |-> ParseInput(files[i]).set.Set])],
             files, i + 1)

\* ParseFiles, from the i-th file on: the parser and the error returned
RECURSIVE parseFilesFrom(_, _, _)
parseFilesFrom(p, files, i) ==
    IF i > Len(files) THEN [parser |-> p, err |-> ""]
    ELSE IF Open(files[i]) # "" THEN [parser |-> p, err |-> "input file"]
    ELSE IF ParseInput(files[i]).err # "" THEN [parser |-> p, err |-> ParseInput(files[i]).err]
    ELSE parseFilesFrom(
             [p EXCEPT !.sets = Append(@, [File |-> files[i],
                                           Environment |-> ParseInput(files[i]).set.Environment,
                                           Set |-> ParseInput(files[i]).set.Set])],
             files, i + 1)

ParseFiles(p, files) == parseFilesFrom(p, files, 1)

\* Sets
Sets(p) == p.sets

\* one call of ParseFiles on the parser
ParseFilesCall ==
    /\ pc = "parser"
    /\ \E files \in SeqsUpTo(FileNames, MaxParsed) :
          /\ Len(parser.sets) + Len(files) <= MaxParsed
          /\ parser' = ParseFiles(parser, files).parser
          /\ lastCall' = [files |-> files, err |-> ParseFiles(parser, files).err]
    /\ UNCHANGED <<osArgs, command, input, generated, decoded, sets, cfg, loadErr, pc, setIdx,
                   pending, benchmarks, catIdx, scenario, err, probe>>

InitParser ==
    /\ osArgs = {}
    /\ command = NewCommand
    /\ parser = NewParser
    /\ lastCall = NoCall
    /\ input = NoInput
    /\ generated = NilConfig
    /\ decoded = NilConfig
    /\ sets = <<>>
    /\ cfg = NilConfig
    /\ loadErr = ""
    /\ pc = "parser"
    /\ setIdx = 0
    /\ pending = {}
    /\ benchmarks = <<>>
    /\ catIdx = 0
    /\ scenario = NilScenario
    /\ err = ""
    /\ probe = NoProbe

NextParser == ParseFilesCall

SpecParser == InitParser /\ [][NextParser]_vars

\* the file can be opened and parsed
Parsable(file) == file \notin MissingFiles \cup UnreadableFiles

\* how many files of the list come before the first one that cannot be
\* opened or parsed
ParsedOf(files) ==
    CHOOSE n \in 0..Len(files) :
        /\ \A i \in 1..n : Parsable(files[i])
        /\ n < Len(files) => ~Parsable(files[n + 1])

\* the set is the one that the file holds, tagged with the name of the file
IsSetOf(set, file) ==
    /\ set.File = file
    /\ \E src \in 1..Len(OnDisk) :
          /\ OnDisk[src].File = file
          /\ set.Set = OnDisk[src].Set
          /\ set.Environment = OnDisk[src].Environment

\* ------------------------------------------------------------------------
\* C26: every call of ParseFiles on a parser appends to Sets() one set
\* per file of the call parsed with success, in the order of the files,
\* each tagged with the name of its file, after the sets of the earlier
\* calls, which are kept as they were; when a file cannot be opened or
\* parsed the call returns an error, the sets of the files before it are
\* kept and no later file of the call is parsed; otherwise the call
\* returns no error.
\* ------------------------------------------------------------------------
C26_SetsAccumulate ==
    [][(parser' # parser \/ lastCall' # lastCall) =>
          LET files == lastCall'.files
              before == Len(Sets(parser))
              parsed == ParsedOf(files)
          IN  /\ Len(Sets(parser')) = before + parsed
              /\ \A i \in 1..before : Sets(parser')[i] = Sets(parser)[i]
              /\ \A i \in 1..parsed : IsSetOf(Sets(parser')[before + i], files[i])
              /\ (lastCall'.err # "") <=> (parsed < Len(files))]_vars

\* a call of three files fails on the second: the first is kept and the
\* third, which can be parsed, is not
C26_Witness ==
    /\ pc = "parser"
    /\ Len(lastCall.files) = 3
    /\ Parsable(lastCall.files[1])
    /\ ~Parsable(lastCall.files[2])
    /\ Parsable(lastCall.files[3])
    /\ lastCall.err # ""
    /\ Len(Sets(parser)) = 1
    /\ Sets(parser)[1].File = lastCall.files[1]

\* a call fails on its first file after two sets were accumulated: they
\* are kept
C26_WitnessKept ==
    /\ pc = "parser"
    /\ Len(lastCall.files) = 1
    /\ lastCall.err # ""
    /\ Len(Sets(parser)) = 2
    /\ Sets(parser)[1].File # Sets(parser)[2].File

\* three sets accumulated over several calls, the last one of a single
\* file
C26_WitnessCalls ==
    /\ pc = "parser"
    /\ Len(lastCall.files) = 1
    /\ lastCall.err = ""
    /\ Len(Sets(parser)) = 3

\* the entries of the list and the index hold the same ids
SameIDs(list, index) == DOMAIN index = {list[i].ID : i \in 1..Len(list)}

\* the entry obtained by id has the title of the entry of the list
SameTitle(got, entry) == got.ok /\ got.v.Title = entry.Title

\* the entry obtained by id has the compiled matchers of the entry of the
\* list, and MatchString has the same result on both for every name
SameMatchers(got, entry) ==
    /\ got.ok
    /\ Matchers(got.v) = Matchers(entry)
    /\ \A name \in Names : MatchString(got.v, name) = MatchString(entry, name)

\* ------------------------------------------------------------------------
\* C27: after a successful Load the indices and the ordered collections
\* describe the same rules: for functions, contexts, versions and metrics
\* the keys of the index are the ids of the collection, and for every id
\* the entry returned by GetFunction / GetContext / GetVersion / GetMetric
\* has the same title and the same compiled positive and negative matchers
\* (hence the same MatchString result on every name) as the entry with
\* that id in the collection.
\* ------------------------------------------------------------------------
C27_IndexAgreesWithCollection ==
    LoadSucceeded =>
        /\ SameIDs(cfg.Functions, cfg.functionIndex)
        /\ SameIDs(cfg.Contexts, cfg.contextIndex)
        /\ SameIDs(cfg.Versions, cfg.versionIndex)
        /\ SameIDs(cfg.Metrics, cfg.metricIndex)
        /\ \A i \in 1..Len(cfg.Functions) :
              /\ SameTitle(GetFunction(cfg, cfg.Functions[i].ID), cfg.Functions[i])
              /\ SameMatchers(GetFunction(cfg, cfg.Functions[i].ID), cfg.Functions[i])
        /\ \A i \in 1..Len(cfg.Contexts) :
              /\ SameTitle(GetContext(cfg, cfg.Contexts[i].ID), cfg.Contexts[i])
              /\ SameMatchers(GetContext(cfg, cfg.Contexts[i].ID), cfg.Contexts[i])
        /\ \A i \in 1..Len(cfg.Versions) :
              /\ SameTitle(GetVersion(cfg, cfg.Versions[i].ID), cfg.Versions[i])
              /\ SameMatchers(GetVersion(cfg, cfg.Versions[i].ID), cfg.Versions[i])
        /\ \A i \in 1..Len(cfg.Metrics) :
              SameTitle(GetMetric(cfg, cfg.Metrics[i].ID), cfg.Metrics[i])

\* what does hold after a successful Load: the keys of every index are the
\* ids of its collection, and the entry obtained by id has the id and the
\* pattern sources of the entry of the collection
IndexKeysAreCollectionIDs ==
    LoadSucceeded =>
        /\ SameIDs(cfg.Functions, cfg.functionIndex)
        /\ SameIDs(cfg.Contexts, cfg.contextIndex)
        /\ SameIDs(cfg.Versions, cfg.versionIndex)
        /\ SameIDs(cfg.Metrics, cfg.metricIndex)
        /\ \A i \in 1..Len(cfg.Functions) :
              LET got == GetFunction(cfg, cfg.Functions[i].ID).v
              IN  got.ID = cfg.Functions[i].ID /\ got.Match = cfg.Functions[i].Match
                  /\ got.NotMatch = cfg.Functions[i].NotMatch

\* ------------------------------------------------------------------------
\* Runs with a category that names a function or a context more than once
\* ------------------------------------------------------------------------
RepeatConfigs ==
    { Config("repeat", "", Prefix(SomeMetrics, 1), <<Object("f1", <<>>, "x", "")>>,
             <<Object("c1", <<>>, "x", "")>>, <<Object("v1", <<>>, "x", "")>>,
             <<Category("cat1", <<>>, Includes(functions, <<>>, contexts, IDs(Prefix(SomeMetrics, 1))))>>,
             <<>>) :
        functions \in {<<>>, <<"f1", "f1">>}, contexts \in {<<>>, <<"c1", "c1">>} }

InitRepeat == \E d \in RepeatConfigs, s \in InputSets : InitWith(d, s)

SpecRepeat == InitRepeat /\ [][Next]_vars

\* how many observations have the metric and the version
ObservedWith(metric, version) ==
    Cardinality({i \in 1..Len(benchmarks) :
                    benchmarks[i].Metric = metric /\ benchmarks[i].Version = version})

\* every series of the scenario has at most as many points as there are
\* observations of its metric and version
PointsBounded ==
    \A k \in 1..Len(scenario.Categories) :
        \A d \in 1..Len(scenario.Categories[k].Data) :
            LET data == scenario.Categories[k].Data[d]
            IN  \A s \in 1..Len(data.Series) :
                    Len(data.Series[s].Points) <= ObservedWith(data.Metric.ID, data.Version.ID)

\* ------------------------------------------------------------------------
\* C28: for every configuration that Load returns and every category,
\* each observation gives at most one point in a given (metric, version)
\* series of the category: a series never has more points than there are
\* observations with its metric and its version.
\* ------------------------------------------------------------------------
C28_OnePointPerObservation == (pc = "done") => PointsBounded

\* no id comes twice in the list
NoRepeat(ids) == \A i, j \in 1..Len(ids) : ids[i] = ids[j] => i = j

\* what does hold: the series are bounded when no category names a
\* function or a context twice
OnePointPerObservationWithoutRepeat ==
    (/\ pc = "done"
     /\ \A k \in 1..Len(cfg.Categories) :
           /\ NoRepeat(cfg.Categories[k].Includes.Functions)
           /\ NoRepeat(cfg.Categories[k].Includes.Contexts)) => PointsBounded

\* the observation has no version or no context
Unclassified(bench) == bench.Version = "" \/ bench.Context = ""

\* nothing but an unclassified observation could make the run fail: there
\* is a record, every record is matched by a function, a metric is
\* configured and every category includes a version
NothingElseFails ==
    /\ AllRecords # {}
    /\ \A b \in AllRecords : MatchesSomeFunction(b.Name)
    /\ ~NoMetricResolves
    /\ \A k \in 1..Len(cfg.Categories) : IncludesVersion(cfg.Categories[k])

\* ------------------------------------------------------------------------
\* C29: an observation whose version id or context id is empty (no name
\* rule and no file rule matched) is never a point of any series of any
\* category, with and without strict mode, and no error comes of its being
\* left out; hence a configuration that defines no context, or no version,
\* gives no point at all.
\* ------------------------------------------------------------------------
C29_UnclassifiedObservationLeftOut ==
    pc \in {"populating", "done", "failed"} =>
        /\ \A i \in 1..Len(benchmarks) :
              Unclassified(benchmarks[i]) =>
                  \A p \in AllPoints : p.Value # benchmarks[i].Value
        /\ \A p \in AllPoints : p.Version # "" /\ p.Context # ""
        /\ (Terminal /\ NothingElseFails) => (pc = "done" /\ err = "" /\ ~scenario.isNil)
        /\ (Len(cfg.Contexts) = 0 \/ Len(cfg.Versions) = 0) => AllPoints = {}

\* a strict run ends without error and with a category: an observation
\* has a function and a context that the category includes and no version,
\* and it is not a point
C29_Witness ==
    /\ pc = "done"
    /\ cfg.IsStrict
    /\ err = ""
    /\ Len(cfg.Versions) > 0
    /\ Len(scenario.Categories) > 0
    /\ \E i \in 1..Len(benchmarks) :
          /\ benchmarks[i].Version = ""
          /\ benchmarks[i].Context \in Range(cfg.Categories[1].Includes.Contexts)
          /\ benchmarks[i].Function \in Range(cfg.Categories[1].Includes.Functions)
          /\ \A p \in AllPoints : p.Value # benchmarks[i].Value

\* a run without strict mode ends with a category: an observation has a
\* function and a version that the category includes and no context, and
\* it is not a point
C29_WitnessContext ==
    /\ pc = "done"
    /\ ~cfg.IsStrict
    /\ Len(cfg.Contexts) > 0
    /\ Len(scenario.Categories) > 0
    /\ \E i \in 1..Len(benchmarks) :
          /\ benchmarks[i].Context = ""
          /\ benchmarks[i].Version \in Range(cfg.Categories[1].Includes.Versions)
          /\ benchmarks[i].Function \in Range(cfg.Categories[1].Includes.Functions)
          /\ \A p \in AllPoints : p.Value # benchmarks[i].Value

\* a strict run of a configuration without context ends without error:
\* it has observations and no point
C29_WitnessNoContext ==
    /\ pc = "done"
    /\ cfg.IsStrict
    /\ Len(cfg.Contexts) = 0
    /\ Len(benchmarks) > 0
    /\ Len(scenario.Categories) > 0
    /\ AllPoints = {}

\* ------------------------------------------------------------------------
\* C30: for every list of record names, the rules that Generate produces
\* classify each name of the list to its own normalized id: with the
\* patterns compiled, FindFunction(n) returns (benchNameToID(n), true) for
\* every name n of the list.
\* ------------------------------------------------------------------------
C30_GeneratedRulesClassify ==
    (pc = "looked" /\ probe.op = "FindFunction") =>
        probe.res = [id |-> benchNameToID(probe.name), ok |-> TRUE]

\* no name of the list is contained in another and no two names have the
\* same id
NoOverlap(names) ==
    \A i, j \in 1..Len(names) :
        i # j => /\ ~Contains(Chars(names[j]), Chars(names[i]))
                 /\ benchNameToID(names[i]) # benchNameToID(names[j])

\* what does hold: every name is classified to its id when no name of the
\* list is contained in another and the ids are distinct
GeneratedRulesClassifyWithoutOverlap ==
    (pc = "looked" /\ probe.op = "FindFunction" /\ NoOverlap(input.Functions)) =>
        probe.res = [id |-> benchNameToID(probe.name), ok |-> TRUE]

\* a name of a list without overlap is classified to its id, which is not
\* the id of the first function
ClassifiedWithoutOverlap ==
    /\ pc = "looked"
    /\ probe.op = "FindFunction"
    /\ Len(input.Functions) = 2
    /\ NoOverlap(input.Functions)
    /\ probe.name = input.Functions[2]
    /\ probe.res = [id |-> benchNameToID(probe.name), ok |-> TRUE]

\* a name that contains the first name of the list is classified to the id
\* of the first name
ClassifiedAsContainedName ==
    /\ pc = "looked"
    /\ input.Functions = <<"BenchmarkA", "BenchmarkA/b">>
    /\ probe.name = "BenchmarkA/b"
    /\ probe.res = [id |-> "a", ok |-> TRUE]

\* a name whose id is the id of an earlier name of the list is not
\* classified at all
UnclassifiedSameID ==
    /\ pc = "looked"
    /\ input.Functions = <<"BenchmarkA-8", "BenchmarkA">>
    /\ probe.name = "BenchmarkA"
    /\ probe.res = NoMatch

====
